---- MODULE Spec2Model ----
(***************************************************************************)
(* Model of the catalog extraction and pricing pipeline: main.py           *)
(* (main, process_catalog), src/price_fetcher.py (PriceFetcher),           *)
(* src/pdf_extractor.py (PDFExtractor._deduplicate_parts and the           *)
(* post-processing of extract_parts), src/data_manager.py (the output      *)
(* phase) and config/schemas.py (Part, ProcessingError).                   *)
(*                                                                         *)
(* Python objects are shared by reference: the Part objects of the main    *)
(* list are the ones handed to fetch_prices and the ones it returns.  The  *)
(* variable parts holds the objects; parts_to_price and updated_parts hold *)
(* positions in parts.                                                     *)
(***************************************************************************)
EXTENDS Integers, Sequences, FiniteSets, TLC

VARIABLES
    pc,               \* position of the run in main / process_catalog / fetch_prices
    catalog_ok,       \* the catalog path exists and ends in .pdf (main.py 139-146)
    pdf_opens,        \* pdfplumber can open and read the document
    update_prices,    \* not --no-prices
    force_refresh,    \* --force-refresh
    credentials,      \* TRUE iff the credential store has the 'Jacuzzi Dealer' entry
    rawParts,         \* the records of all pages, concatenated, before deduplication
    parts,            \* the Part objects of process_catalog's list
    parts_to_price,   \* positions in parts of the records handed to fetch_prices
    updated_parts,    \* fetch_prices' updated_parts, as positions in parts
    errors,           \* fetch_prices' errors list
    driver,           \* self.driver: "none" or "open"
    quits,            \* number of driver.quit() calls made
    is_logged_in,     \* self.is_logged_in
    chunk_num,        \* one-based number of the chunk being processed
    pos,              \* one-based position in the current chunk
    events,           \* driver interactions and sleeps, in order
    login_result,     \* how _login ended: "none" before it ran
    nav_result,       \* how _navigate_to_price_lookup ended: "none" before it ran
    last_outcome,     \* what the portal did with the lookup just made; "none" otherwise
    persisted,        \* the 'parts' array of the file written by save_parts_data
    success,          \* process_catalog's return value: "none", "true", "false"
    exit_status,      \* sys.exit status; None while running
    pdf_pages,        \* pdf.pages: what the parsing engine yields for each page
    page_num,         \* one-based number of the page extract_parts is at
    total_pages,      \* metadata.total_pages
    save_ok,          \* TRUE iff _save_extraction_data can write its files
    input,            \* argument of a function of the pipeline applied on its own
    output,           \* what that function returned; None before the call
    portal,           \* the outcomes the portal can give to a lookup of this run
    end_time,         \* session.end_time; None until main sets it
    session_file,     \* what save_session_metadata wrote: <<>> while not written,
                      \* else the one dict of the session
    files             \* the record files of EXTRACTS_DIR, oldest first, where the
                      \* writing of the files is modelled

vars == <<pc, catalog_ok, pdf_opens, update_prices, force_refresh, credentials,
          rawParts, parts, parts_to_price, updated_parts, errors, driver, quits,
          is_logged_in, chunk_num, pos, events, login_result, nav_result,
          last_outcome, persisted, success, exit_status, pdf_pages, page_num,
          total_pages, save_ok, input, output, portal, end_time, session_file,
          files>>

\* the state of extract_parts' page loop and of a function applied on its own
extract_vars == <<pdf_pages, page_num, total_pages, save_ok, input, output, files>>

\* the command line and the environment of the run, which no step of main,
\* process_catalog or fetch_prices changes
env == <<catalog_ok, pdf_opens, update_prices, force_refresh, credentials, rawParts,
         extract_vars, portal>>

(***************************************************************************)
(* Bounds of the model.                                                    *)
(***************************************************************************)
MaxRaw == 3        \* longest raw record list given to deduplication alone
MaxParts == 3      \* longest raw record list of a whole run
MaxSessionParts == 2   \* longest raw record list of a run checked for termination
MaxPricingParts == 2   \* longest record list handed to the pricing phase alone
TicksPerDay == 2       \* readings of the clock in one day

(***************************************************************************)
(* Program constants and value domains.                                    *)
(***************************************************************************)
None == -1                     \* Python's None for a price or a timestamp
CHUNK_SIZE == 10               \* chunk_list(parts, 10)
PRICE_STALE_DAYS == 7

PartNumbers == {"6000-487", "A6000-123", "2015-05"}
Descriptions == {"Pump ", "Jet"}          \* lengths 5 and 3
Categories == {"", "Pumps & Mo"}          \* lengths 0 and 10
Pages == {1, 2}
Prices == {0, 12345}                      \* amounts in cents

\* config/schemas.py PartStatus
EXTRACTED == "extracted"
PRICE_PENDING == "price_pending"
PRICED == "priced"
PRICE_FAILED == "price_failed"

\* config/schemas.py ErrorType
PART_NOT_FOUND == "part_not_found"
NETWORK_ERROR == "network_error"
LOGIN_FAILED == "login_failed"
UNEXPECTED == "unexpected"

\* Part(...) as the extractor creates it (dataclass defaults for the rest)
Part(pn, desc, cat, page) ==
    [part_number |-> pn, description |-> desc, category |-> cat,
     page_reference |-> page, status |-> EXTRACTED, price |-> None,
     last_price_update |-> None, source_catalog |-> ""]

\* Variant of ProcessingError that does not take the page over
ProcessingErrorWithoutPage(pn, kind, page) ==
    [part_number |-> pn, error_type |-> kind, retry_count |-> 0,
     page_reference |-> 0]

\* ProcessingError(...): retry_count and page_reference default to 0
ProcessingError(pn, kind, page) ==
    [part_number |-> pn, error_type |-> kind, retry_count |-> 0,
     page_reference |-> page]

Event(op, arg) == [op |-> op, arg |-> arg]

\* datetime.now(): a logical clock that advances with every logged event
Clock(evs) == Len(evs) + 1

Now == Clock(events)

SeqsUpTo(S, n) == UNION {[1..k -> S] : k \in 0..n}

\* records the deduplication is exercised on
DedupRecords ==
    {Part(pn, d, c, pg) : pn \in {"6000-487", "A6000-123"},
                          d \in Descriptions, c \in Categories, pg \in Pages}

\* records a whole run extracts: one shape per identifier
RunRecords ==
    {Part("6000-487", "Pump ", "", 1), Part("A6000-123", "Jet", "Pumps & Mo", 2),
     Part("2015-05", "Jet", "", 1)}

(***************************************************************************)
(* PDFExtractor._deduplicate_parts                                         *)
(***************************************************************************)
\* key of max(): len(p.description) + len(p.category)
InfoKey(p) == Len(p.description) + Len(p.category)

\* keys of part_groups in insertion order: identifiers by first occurrence
GroupKeys(ps) ==
    LET firsts == SelectSeq([i \in 1..Len(ps) |-> i],
                     LAMBDA i : \A j \in 1..(i - 1) : ps[j].part_number # ps[i].part_number)
    IN  [k \in 1..Len(firsts) |-> ps[firsts[k]].part_number]

\* part_groups[pn]: the records of one identifier, in input order
Group(ps, pn) == SelectSeq(ps, LAMBDA p : p.part_number = pn)

\* Variant of MaxFrom in which a later element of equal key replaces the best
RECURSIVE MaxFromLast(_, _, _)
MaxFromLast(list, i, best) ==
    IF i > Len(list) THEN best
    ELSE MaxFromLast(list, i + 1, IF InfoKey(list[i]) >= InfoKey(best) THEN list[i] ELSE best)

\* Python's max(list, key=...): the first element whose key is maximal
RECURSIVE MaxFrom(_, _, _)
MaxFrom(list, i, best) ==
    IF i > Len(list) THEN best
    ELSE MaxFrom(list, i + 1, IF InfoKey(list[i]) > InfoKey(best) THEN list[i] ELSE best)

PyMax(list) == MaxFrom(list, 2, list[1])

BestOf(part_list) ==
    IF Len(part_list) = 1 THEN part_list[1] ELSE PyMax(part_list)

\* Variant of DeduplicateParts that merges only neighbouring records of one
\* identifier, two at a time
RECURSIVE DeduplicateNeighbours(_)
DeduplicateNeighbours(ps) ==
    IF Len(ps) < 2 THEN ps
    ELSE IF ps[1].part_number = ps[2].part_number
         THEN <<BestOf(<<ps[1], ps[2]>>)>> \o DeduplicateNeighbours(SubSeq(ps, 3, Len(ps)))
         ELSE <<ps[1]>> \o DeduplicateNeighbours(Tail(ps))

DeduplicateParts(ps) ==
    IF Len(ps) = 0 THEN ps
    ELSE LET keys == GroupKeys(ps)
         IN  [k \in 1..Len(keys) |-> BestOf(Group(ps, keys[k]))]

\* PDFExtractor._enrich_parts_metadata: stamps the source catalog name
CatalogName == "catalog_sample"

EnrichPartsMetadata(ps) ==
    [k \in 1..Len(ps) |-> [ps[k] EXCEPT !.source_catalog = CatalogName]]

\* What the portal does with one lookup.  _fetch_part_price turns a timeout, a
\* missing element and any other exception of the driver into None; "raised" is
\* an exception that leaves the call at line 82 and reaches the handler of line 99.
LookupOutcomes ==
    [kind : {"price"}, price : Prices]
        \cup [kind : {"no_price", "timeout", "no_element", "error", "raised"}, price : {None}]

(***************************************************************************)
(* Initial states of a run: the command line, the environment and the      *)
(* records the pages yield.                                                *)
(***************************************************************************)
\* nothing has been fetched, written or ended
InitIdle ==
    /\ parts_to_price = <<>>
    /\ updated_parts = <<>>
    /\ errors = <<>>
    /\ driver = "none"
    /\ quits = 0
    /\ is_logged_in = FALSE
    /\ chunk_num = 0
    /\ pos = 0
    /\ events = <<>>
    /\ login_result = "none"
    /\ nav_result = "none"
    /\ last_outcome = "none"
    /\ persisted = <<>>
    /\ success = "none"
    /\ exit_status = None
    /\ end_time = None
    /\ session_file = <<>>

InitRunState == parts = <<>> /\ InitIdle

\* the portal may answer any lookup in any way
InitRun == InitRunState /\ portal = LookupOutcomes

\* no page loop is modelled and no function is applied on its own
InitExtractIdle ==
    /\ pdf_pages = <<>>
    /\ page_num = 0
    /\ total_pages = 0
    /\ save_ok = TRUE
    /\ input = None
    /\ output = None
    /\ files = <<>>

InitCommon == InitRun /\ InitExtractIdle

Init ==
    /\ pc = "main"
    /\ catalog_ok \in BOOLEAN
    /\ pdf_opens \in BOOLEAN
    /\ update_prices \in BOOLEAN
    /\ force_refresh \in BOOLEAN
    /\ credentials \in BOOLEAN
    /\ rawParts \in SeqsUpTo(RunRecords, MaxParts)
    /\ InitCommon

(***************************************************************************)
(* Helpers of the price fetch.                                             *)
(***************************************************************************)
Min(a, b) == IF a < b THEN a ELSE b

MaxOf(S) == CHOOSE x \in S : \A y \in S : y <= x

\* Variant of ChunkList that hands the whole list over as one chunk
ChunkListWhole(lst, chunk_size) == IF Len(lst) = 0 THEN <<>> ELSE <<lst>>

\* src/utils.py chunk_list: [lst[i:i + chunk_size] for i in range(0, len(lst), chunk_size)]
ChunkList(lst, chunk_size) ==
    [c \in 1..((Len(lst) + chunk_size - 1) \div chunk_size) |->
        SubSeq(lst, (c - 1) * chunk_size + 1, Min(c * chunk_size, Len(lst)))]

chunks == ChunkList(parts_to_price, CHUNK_SIZE)

\* position in parts of the record the loop is at
CurrentPart == chunks[chunk_num][pos]

\* timedelta.days: the whole days of a difference of two clock readings
DaysOf(delta) == delta \div TicksPerDay

\* Part.is_price_stale: no timestamp, or (now - last_price_update).days > days
IsPriceStale(p, days) ==
    IF p.last_price_update = None THEN TRUE
    ELSE DaysOf(Now - p.last_price_update) > days

Positions(ps) == [i \in 1..Len(ps) |-> i]

\* PriceFetcher._fetch_part_price: the price, or None
FetchPartPrice(outcome) ==
    IF outcome.kind = "price" THEN outcome.price ELSE None

\* datetime.isoformat: the time written out to the microsecond, a clock reading
\* being 1000 of them
IsoFormat(t) == t * 1000

\* datetime.fromisoformat
FromIsoFormat(text) == text \div 1000

\* Part.to_dict
ToDict(p) ==
    [sku |-> p.part_number, part_number |-> p.part_number,
     description |-> p.description, category |-> p.category,
     unit_price |-> p.price,
     last_updated |-> IF p.last_price_update # None
                      THEN IsoFormat(p.last_price_update) ELSE None,
     source_catalog |-> p.source_catalog, status |-> p.status,
     page_reference |-> p.page_reference]

\* Variant of MergeParts that keeps only the parts fetch_prices returned
MergePartsUpdatedOnly(ps, upd) == [k \in 1..Len(upd) |-> ps[upd[k]]]

\* process_catalog lines 84-87: part_dict keyed by part_number, every updated
\* part replaces the entry of its identifier, the values in insertion order
MergeParts(ps, upd) ==
    LET keys == GroupKeys(ps)
        ValueOf(pn) ==
            LET u == {k \in 1..Len(upd) : ps[upd[k]].part_number = pn}
                o == {j \in 1..Len(ps) : ps[j].part_number = pn}
            IN  IF u # {} THEN ps[upd[MaxOf(u)]] ELSE ps[MaxOf(o)]
    IN  [k \in 1..Len(keys) |-> ValueOf(keys[k])]

(***************************************************************************)
(* main and process_catalog, up to the price fetch.                        *)
(***************************************************************************)
\* main lines 138-146: a missing or non-PDF catalog exits with status 1
ValidateInput ==
    /\ pc = "main"
    /\ IF catalog_ok
       THEN /\ pc' = "extract"
            /\ UNCHANGED exit_status
       ELSE /\ pc' = "exit"
            /\ exit_status' = 1
    /\ UNCHANGED <<env, parts, parts_to_price, updated_parts, errors, driver, quits,
                   is_logged_in, chunk_num, pos, events, login_result, nav_result,
                   last_outcome, persisted, success, end_time, session_file>>

\* PDFExtractor.extract_parts: the records of all pages, deduplicated and
\* stamped; [] when the document cannot be read
ExtractedParts ==
    IF pdf_opens THEN EnrichPartsMetadata(DeduplicateParts(rawParts)) ELSE <<>>

\* process_catalog lines 50-65: phase 1, and the return when nothing was extracted
ExtractPhase ==
    /\ pc = "extract"
    /\ parts' = ExtractedParts
    /\ IF Len(ExtractedParts) = 0
       THEN /\ success' = "false"
            /\ pc' = "finalize"
       ELSE /\ success' = success
            /\ pc' = IF update_prices THEN "select" ELSE "output"
    /\ UNCHANGED <<env, parts_to_price, updated_parts, errors, driver, quits,
                   is_logged_in, chunk_num, pos, events, login_result, nav_result,
                   last_outcome, persisted, exit_status, end_time, session_file>>

\* process_catalog lines 70-79: the records handed to fetch_prices
SelectPartsToPrice ==
    /\ pc = "select"
    /\ parts_to_price' =
          IF force_refresh THEN Positions(parts)
          ELSE SelectSeq(Positions(parts), LAMBDA i : IsPriceStale(parts[i], PRICE_STALE_DAYS))
    /\ pc' = "fp_setup"
    /\ UNCHANGED <<env, parts, updated_parts, errors, driver, quits, is_logged_in,
                   chunk_num, pos, events, login_result, nav_result, last_outcome,
                   persisted, success, exit_status, end_time, session_file>>

(***************************************************************************)
(* PriceFetcher.fetch_prices                                               *)
(***************************************************************************)
\* what does not belong to the price fetch
session_vars == <<end_time, session_file>>

main_vars == <<persisted, success, exit_status, session_vars>>

\* _setup_driver: webdriver.Chrome() or implicitly_wait may raise; the exception
\* is re-raised into fetch_prices' handler
SetupDriver ==
    /\ pc = "fp_setup"
    /\ \E r \in {"ok", "chrome_raises", "wait_raises"} :
          /\ driver' = IF r = "chrome_raises" THEN driver ELSE "open"
          /\ events' = IF r = "chrome_raises" THEN events
                       ELSE Append(events, Event("start", ""))
          /\ pc' = IF r = "ok" THEN "fp_login" ELSE "fp_except"
    /\ UNCHANGED <<env, parts, parts_to_price, updated_parts, errors, quits,
                   is_logged_in, chunk_num, pos, login_result, nav_result,
                   last_outcome, main_vars>>

\* how _login can end: without the credentials entry it returns False at once
LoginResults ==
    IF credentials THEN {"ok", "no_marker", "timeout", "error"} ELSE {"no_credentials"}

\* the driver calls _login makes before it ends with r
LoginEvents(r) ==
    CASE r = "no_credentials" -> <<>>
      [] r \in {"timeout", "error"} -> <<Event("get", "")>>
      [] OTHER -> <<Event("get", ""), Event("submit_login", "")>>

\* Variant of LoginSucceeded that does not look for the marker on the page
LoginSucceededLenient(r) == r \in {"ok", "no_marker"}

\* _login's return value: True only when the page after the login shows the marker
LoginSucceeded(r) == r = "ok"

\* fetch_prices lines 54-62 with _login
Login ==
    /\ pc = "fp_login"
    /\ \E r \in LoginResults :
          /\ login_result' = r
          /\ events' = events \o LoginEvents(r)
          /\ is_logged_in' = (r = "ok")
          /\ IF LoginSucceeded(r)
             THEN /\ errors' = errors
                  /\ pc' = "fp_nav"
             ELSE /\ errors' = Append(errors, ProcessingError("ALL", LOGIN_FAILED, 0))
                  /\ pc' = "fp_finally"
    /\ UNCHANGED <<env, parts, parts_to_price, updated_parts, driver, quits,
                   chunk_num, pos, nav_result, last_outcome, main_vars>>

\* the three menu links, in the order _navigate_to_price_lookup clicks them
NavLinks == <<"Orders", "Lookups", "Prices">>

\* number of waits of _navigate_to_price_lookup: one per link, then the form
NavSteps == Len(NavLinks) + 1

\* the clicks made when step failAt fails (0: none fails)
NavEvents(failAt) ==
    LET clicked == IF failAt = 0 THEN Len(NavLinks) ELSE failAt - 1
    IN  [k \in 1..clicked |-> Event("click", NavLinks[k])]

\* Variant of NavSucceeded that does not wait for the lookup form
NavSucceededLenient(failAt) == failAt \in {0, NavSteps}

\* _navigate_to_price_lookup's return value: True only when no step failed
NavSucceeded(failAt) == failAt = 0

\* fetch_prices lines 64-77 with _navigate_to_price_lookup: a timeout or any
\* other exception at one of the steps makes it return False
Navigate ==
    /\ pc = "fp_nav"
    /\ \E failAt \in 0..NavSteps, kind \in {"timeout", "error"} :
          /\ events' = events \o NavEvents(failAt)
          /\ nav_result' = IF failAt = 0 THEN "ok" ELSE kind
          /\ IF NavSucceeded(failAt)
             THEN /\ errors' = errors
                  /\ IF Len(chunks) = 0
                     THEN /\ pc' = "fp_finally"
                          /\ UNCHANGED <<chunk_num, pos>>
                     ELSE /\ pc' = "fp_lookup"
                          /\ chunk_num' = 1
                          /\ pos' = 1
             ELSE /\ errors' = Append(errors, ProcessingError("ALL", NETWORK_ERROR, 0))
                  /\ pc' = "fp_finally"
                  /\ UNCHANGED <<chunk_num, pos>>
    /\ UNCHANGED <<env, parts, parts_to_price, updated_parts, driver, quits,
                   is_logged_in, login_result, last_outcome, main_vars>>

\* fetch_prices lines 84-86: the record after a lookup that gave a price
PricedPart(part, price, now) ==
    [part EXCEPT !.price = price, !.last_price_update = now, !.status = PRICED]

\* Variant of FailedPart that builds the failed record anew from what the
\* catalog says about it
FailedPartRebuilt(part) ==
    [Part(part.part_number, part.description, part.category, part.page_reference)
        EXCEPT !.status = PRICE_FAILED]

\* Variant of FailedPart that also drops the price of an earlier lookup
FailedPartWithoutPrice(part) ==
    [part EXCEPT !.status = PRICE_FAILED, !.price = None, !.last_price_update = None]

\* fetch_prices lines 90 and 101: the record after a lookup that gave no price
FailedPart(part) == [part EXCEPT !.status = PRICE_FAILED]

\* fetch_prices lines 80-108: one record of the chunk
LookupPrice ==
    /\ pc = "fp_lookup"
    /\ \E o \in portal :
          LET i == CurrentPart
              part == parts[i]
              evs == Append(events, Event("lookup", part.part_number))
              price == FetchPartPrice(o)
          IN  /\ events' = evs
              /\ last_outcome' = o.kind
              /\ IF o.kind = "raised"
                 THEN /\ parts' = [parts EXCEPT ![i] = FailedPart(part)]
                      /\ errors' = Append(errors,
                              ProcessingError(part.part_number, UNEXPECTED, part.page_reference))
                      /\ UNCHANGED updated_parts
                 ELSE IF price # None
                 THEN /\ parts' = [parts EXCEPT ![i] = PricedPart(part, price, Clock(evs))]
                      /\ updated_parts' = Append(updated_parts, i)
                      /\ UNCHANGED errors
                 ELSE /\ parts' = [parts EXCEPT ![i] = FailedPart(part)]
                      /\ errors' = Append(errors,
                              ProcessingError(part.part_number, PART_NOT_FOUND, part.page_reference))
                      /\ UNCHANGED updated_parts
    /\ pc' = "fp_sleep"
    /\ UNCHANGED <<env, parts_to_price, driver, quits, is_logged_in, chunk_num, pos,
                   login_result, nav_result, main_vars>>

\* Variant of Sleep in which a failed lookup ends the loop
SleepStopOnFailure ==
    /\ pc = "fp_sleep"
    /\ last_outcome' = "none"
    /\ events' = Append(events, Event("sleep", ""))
    /\ IF last_outcome = "price" /\ pos < Len(chunks[chunk_num])
       THEN /\ pos' = pos + 1
            /\ pc' = "fp_lookup"
       ELSE /\ pos' = pos
            /\ pc' = "fp_finally"
    /\ UNCHANGED <<env, parts, parts_to_price, updated_parts, errors, driver, quits,
                   is_logged_in, chunk_num, login_result, nav_result, main_vars>>

\* fetch_prices lines 110-115 and the loop headers: the delay after a lookup, the
\* longer pause after a chunk that is not the last, and the step to the next record
Sleep ==
    /\ pc = "fp_sleep"
    /\ last_outcome' = "none"
    /\ IF pos < Len(chunks[chunk_num])
       THEN /\ events' = Append(events, Event("sleep", ""))
            /\ pos' = pos + 1
            /\ UNCHANGED chunk_num
            /\ pc' = "fp_lookup"
       ELSE IF chunk_num < Len(chunks)
       THEN /\ events' = events \o <<Event("sleep", ""), Event("pause", "")>>
            /\ chunk_num' = chunk_num + 1
            /\ pos' = 1
            /\ pc' = "fp_lookup"
       ELSE /\ events' = Append(events, Event("sleep", ""))
            /\ UNCHANGED <<chunk_num, pos>>
            /\ pc' = "fp_finally"
    /\ UNCHANGED <<env, parts, parts_to_price, updated_parts, errors, driver, quits,
                   is_logged_in, login_result, nav_result, main_vars>>

\* Variant of SessionException in which the session is set up again
SessionExceptionRelogin ==
    /\ pc = "fp_sleep"
    /\ pc' = "fp_login"
    /\ last_outcome' = "none"
    /\ UNCHANGED <<env, parts, parts_to_price, updated_parts, errors, driver, quits,
                   is_logged_in, chunk_num, pos, events, login_result, nav_result,
                   main_vars>>

\* an exception raised in the chunk loop outside the try of lines 81-108 (the
\* statements of lines 110-115) leaves the loop for the handler of line 117
SessionException ==
    /\ pc = "fp_sleep"
    /\ pc' = "fp_except"
    /\ last_outcome' = "none"
    /\ UNCHANGED <<env, parts, parts_to_price, updated_parts, errors, driver, quits,
                   is_logged_in, chunk_num, pos, events, login_result, nav_result,
                   main_vars>>

\* Variant of CriticalError that gives up the results obtained so far
CriticalErrorDiscards ==
    /\ pc = "fp_except"
    /\ errors' = Append(errors, ProcessingError("ALL", UNEXPECTED, 0))
    /\ updated_parts' = <<>>
    /\ pc' = "fp_finally"
    /\ UNCHANGED <<env, parts, parts_to_price, driver, quits, is_logged_in, chunk_num,
                   pos, events, login_result, nav_result, last_outcome, main_vars>>

\* fetch_prices lines 117-124: the handler of the whole call
CriticalError ==
    /\ pc = "fp_except"
    /\ errors' = Append(errors, ProcessingError("ALL", UNEXPECTED, 0))
    /\ pc' = "fp_finally"
    /\ UNCHANGED <<env, parts, parts_to_price, updated_parts, driver, quits,
                   is_logged_in, chunk_num, pos, events, login_result, nav_result,
                   last_outcome, main_vars>>

\* Variant of CleanupDriver that runs at the end of the try block instead of in
\* the finally clause: the early returns and the handler skip it
CleanupDriverOnSuccessOnly ==
    /\ pc = "fp_finally"
    /\ IF driver # "none" /\ errors = <<>>
       THEN /\ quits' = quits + 1
            /\ events' = Append(events, Event("quit", ""))
            /\ driver' = "none"
       ELSE UNCHANGED <<quits, events, driver>>
    /\ pc' = "fp_return"
    /\ UNCHANGED <<env, parts, parts_to_price, updated_parts, errors, is_logged_in,
                   chunk_num, pos, login_result, nav_result, last_outcome, main_vars>>

\* fetch_prices lines 126-127 with _cleanup_driver: quit() is called on a driver
\* that is set, an exception of quit() is swallowed, the reference is cleared
CleanupDriver ==
    /\ pc = "fp_finally"
    /\ IF driver # "none"
       THEN /\ quits' = quits + 1
            /\ events' = Append(events, Event("quit", ""))
            /\ driver' = "none"
       ELSE UNCHANGED <<quits, events, driver>>
    /\ pc' = "fp_return"
    /\ UNCHANGED <<env, parts, parts_to_price, updated_parts, errors, is_logged_in,
                   chunk_num, pos, login_result, nav_result, last_outcome, main_vars>>

(***************************************************************************)
(* process_catalog after the price fetch, and the end of main.             *)
(***************************************************************************)
fetch_vars == <<parts_to_price, updated_parts, errors, driver, quits, is_logged_in,
                chunk_num, pos, events, login_result, nav_result, last_outcome>>

\* process_catalog lines 79-91: fetch_prices returns, its updated parts are merged
MergeUpdated ==
    /\ pc = "fp_return"
    /\ parts' = MergeParts(parts, updated_parts)
    /\ pc' = "output"
    /\ UNCHANGED <<env, fetch_vars, main_vars>>

\* DataManager.save_parts_data
SavePartsData ==
    /\ pc = "output"
    /\ persisted' = [k \in 1..Len(parts) |-> ToDict(parts[k])]
    /\ pc' = "lou_csv"
    /\ UNCHANGED <<env, parts, fetch_vars, success, exit_status, session_vars>>

\* DataManager.generate_lou_csv line 82: the parts ready for the dashboard
ReadyParts(ps) == SelectSeq(ps, LAMBDA p : p.status \in {PRICED, "active"})

\* Variant of GenerateLouCsv whose validation accepts an empty data frame
GenerateLouCsvAcceptsEmpty ==
    /\ pc = "lou_csv"
    /\ success' = success
    /\ pc' = "backup"
    /\ UNCHANGED <<env, parts, fetch_vars, persisted, exit_status, session_vars>>

\* DataManager.generate_lou_csv: with no ready part the data frame has no column
\* and _validate_lou_csv raises KeyError at df['sku'], which process_catalog's
\* handler (lines 116-118) turns into the return value False
GenerateLouCsv ==
    /\ pc = "lou_csv"
    /\ IF Len(ReadyParts(parts)) = 0
       THEN /\ success' = "false"
            /\ pc' = "finalize"
       ELSE /\ success' = success
            /\ pc' = "backup"
    /\ UNCHANGED <<env, parts, fetch_vars, persisted, exit_status, session_vars>>

\* ProcessingSession.start_time: setup_session runs before any driver event
StartTime == Clock(<<>>)

\* ProcessingSession.duration
Duration(end) == IF end # None THEN end - StartTime ELSE None

\* ProcessingSession.to_dict: the end timestamp and the duration of the session
SessionToDict(end) == [end_time |-> end, duration_seconds |-> Duration(end)]

\* process_catalog lines 106-114: backup, save_session_metadata(session),
\* return True
BackupAndMetadata ==
    /\ pc = "backup"
    /\ session_file' = <<SessionToDict(end_time)>>
    /\ success' = "true"
    /\ pc' = "finalize"
    /\ UNCHANGED <<env, parts, fetch_vars, persisted, exit_status, end_time>>

\* main lines 160-172: session.end_time = datetime.now(), then sys.exit(0) on
\* success and sys.exit(1) otherwise
Finalize ==
    /\ pc = "finalize"
    /\ end_time' = Now
    /\ exit_status' = IF success = "true" THEN 0 ELSE 1
    /\ pc' = "exit"
    /\ UNCHANGED <<env, parts, fetch_vars, persisted, success, session_file>>

Next ==
    \/ ValidateInput
    \/ ExtractPhase
    \/ SelectPartsToPrice
    \/ SetupDriver
    \/ Login
    \/ Navigate
    \/ LookupPrice
    \/ Sleep
    \/ SessionException
    \/ CriticalError
    \/ CleanupDriver
    \/ MergeUpdated
    \/ SavePartsData
    \/ GenerateLouCsv
    \/ BackupAndMetadata
    \/ Finalize

Spec == Init /\ [][Next]_vars

(***************************************************************************)
(* Deduplication on its own: any raw record list, then _deduplicate_parts. *)
(***************************************************************************)
InitDedup ==
    /\ pc = "dedup"
    /\ catalog_ok = TRUE
    /\ pdf_opens = TRUE
    /\ update_prices = FALSE
    /\ force_refresh = FALSE
    /\ credentials = FALSE
    /\ rawParts \in SeqsUpTo(DedupRecords, MaxRaw)
    /\ InitCommon

\* extract_parts line 65: parts = self._deduplicate_parts(parts)
Deduplicate ==
    /\ pc = "dedup"
    /\ parts' = DeduplicateParts(rawParts)
    /\ pc' = "deduped"
    /\ UNCHANGED <<env, fetch_vars, main_vars>>

\* _deduplicate_parts called once more, on the list it returned
DeduplicateAgain ==
    /\ pc = "deduped"
    /\ parts' = DeduplicateParts(parts)
    /\ pc' = "deduped2"
    /\ UNCHANGED <<env, fetch_vars, main_vars>>

NextDedup ==
    \/ Deduplicate
    \/ DeduplicateAgain

SpecDedup == InitDedup /\ [][NextDedup]_vars

\* the runs that reach the price fetch whenever a record is extracted
InitSession ==
    /\ pc = "main"
    /\ catalog_ok = TRUE
    /\ pdf_opens = TRUE
    /\ update_prices = TRUE
    /\ force_refresh = FALSE
    /\ credentials \in BOOLEAN
    /\ rawParts \in SeqsUpTo(RunRecords, MaxSessionParts)
    /\ InitCommon

(***************************************************************************)
(* Runs on catalogs long enough for several chunks.  The portal answers    *)
(* every lookup of one run in the same way.                                *)
(***************************************************************************)
MaxChunkParts == 21    \* most records of a catalog whose chunks are observed

\* the k-th identifier of such a catalog: 6000-101, 6000-102, ...
ChunkId(k) == "6000-" \o ToString(100 + k)

ChunkRecords(n) == [k \in 1..n |-> Part(ChunkId(k), "Jet", "", 1)]

InitChunks ==
    /\ pc = "main"
    /\ catalog_ok = TRUE
    /\ pdf_opens = TRUE
    /\ update_prices = TRUE
    /\ force_refresh \in BOOLEAN
    /\ credentials = TRUE
    /\ rawParts \in {ChunkRecords(n) : n \in 0..MaxChunkParts}
    /\ portal \in {{o} : o \in LookupOutcomes}
    /\ InitRunState
    /\ InitExtractIdle

SpecChunks == InitChunks /\ [][Next]_vars

(***************************************************************************)
(* The pricing phase of process_catalog (lines 64-87) on its own, applied  *)
(* to record lists that carry the results of earlier pricing.  The session *)
(* starts at StartTime; a price of an earlier session has a timestamp      *)
(* below it, and no record carries the time -1, which stands for None.     *)
(***************************************************************************)
PricingIds == <<"6000-487", "A6000-123", "2015-05">>

\* ages of a price at the start of the session, in clock readings: recent,
\* exactly the threshold, between the threshold and one day more, one day more
PriceAges ==
    {1, PRICE_STALE_DAYS * TicksPerDay, PRICE_STALE_DAYS * TicksPerDay + 1,
     (PRICE_STALE_DAYS + 1) * TicksPerDay}

\* status, price and price timestamp a record can carry into the pricing phase
PriorPricing ==
    [status : {EXTRACTED, PRICE_FAILED}, price : {None}, last_price_update : {None}]
        \cup [status : {PRICED}, price : {12345},
              last_price_update : {StartTime - a : a \in PriceAges}]
        \cup [status : {PRICE_FAILED}, price : {12345},
              last_price_update : {StartTime - (PRICE_STALE_DAYS + 1) * TicksPerDay}]

WithPricing(p, prior) ==
    [p EXCEPT !.status = prior.status, !.price = prior.price,
              !.last_price_update = prior.last_price_update,
              !.source_catalog = CatalogName]

\* record lists of distinct identifiers, each record with some earlier pricing
PricingInputs ==
    UNION {{[k \in 1..n |-> WithPricing(Part(PricingIds[k], "Jet", "", k), f[k])] :
               f \in [1..n -> PriorPricing]} : n \in 0..MaxPricingParts}

InitPricing ==
    /\ pc = "select"
    /\ catalog_ok = TRUE
    /\ pdf_opens = TRUE
    /\ update_prices = TRUE
    /\ force_refresh \in BOOLEAN
    /\ credentials = TRUE
    /\ rawParts = <<>>
    /\ portal = LookupOutcomes
    /\ InitIdle
    /\ pdf_pages = <<>>
    /\ page_num = 0
    /\ total_pages = 0
    /\ save_ok = TRUE
    /\ output = None
    /\ files = <<>>
    /\ input \in PricingInputs
    /\ parts = input

NextPricing ==
    \/ SelectPartsToPrice
    \/ SetupDriver
    \/ Login
    \/ Navigate
    \/ LookupPrice
    \/ Sleep
    \/ SessionException
    \/ CriticalError
    \/ CleanupDriver
    \/ MergeUpdated

SpecPricing == InitPricing /\ [][NextPricing]_vars

\* the run is sequential code: whatever step is enabled is eventually taken
FairSpec == InitSession /\ [][Next]_vars /\ WF_vars(Next)

TypeOK ==
    /\ pc \in {"main", "extract", "select", "fp_setup", "fp_login", "fp_nav",
               "fp_lookup", "fp_sleep", "fp_except", "fp_finally", "fp_return",
               "output", "lou_csv", "backup", "finalize", "exit", "dedup", "deduped", "deduped2",
               "match", "matched", "validate", "validated", "columns", "resolved",
               "classify", "classified", "parse", "parsed", "x_open", "x_page", "x_post", "x_return",
               "rt_export", "rt_extraction_saved", "rt_parts_data_saved", "rt_reloaded"}
    /\ driver \in {"none", "open"}
    /\ success \in {"none", "true", "false"}
    /\ exit_status \in {None, 0, 1}
    /\ \A i \in 1..Len(parts) : parts[i].status \in {EXTRACTED, PRICE_PENDING, PRICED, PRICE_FAILED}

(***************************************************************************)
(* Texts.  A character is a string of length one and a text is a sequence  *)
(* of characters, so that the regular expressions of the extractor are     *)
(* evaluated character by character.                                       *)
(***************************************************************************)
Digits == {"0", "1", "2", "3", "4", "5", "6", "7", "8", "9"}

UpperLetters ==
    <<"A", "B", "C", "D", "E", "F", "G", "H", "I", "J", "K", "L", "M",
      "N", "O", "P", "Q", "R", "S", "T", "U", "V", "W", "X", "Y", "Z">>

LowerLetters ==
    <<"a", "b", "c", "d", "e", "f", "g", "h", "i", "j", "k", "l", "m",
      "n", "o", "p", "q", "r", "s", "t", "u", "v", "w", "x", "y", "z">>

SetOf(seq) == {seq[k] : k \in 1..Len(seq)}

IsDigit(c) == c \in Digits

IsUpper(c) == c \in SetOf(UpperLetters)

IsLower(c) == c \in SetOf(LowerLetters)

\* \w of the re module
IsWord(c) == IsDigit(c) \/ IsUpper(c) \/ IsLower(c) \/ c = "_"

\* what str.strip() removes and \s matches
IsSpace(c) == c \in {" ", "\n", "\t"}

\* the one-based position i of text holds a word character
WordAt(text, i) == i >= 1 /\ i <= Len(text) /\ IsWord(text[i])

\* \b at offset i, i.e. between text[i] and text[i + 1]
AtWordBoundary(text, i) == WordAt(text, i) # WordAt(text, i + 1)

\* one element of a pattern: "d" is \d, "U" is [A-Z], anything else itself
ClassMatches(cls, c) ==
    CASE cls = "d" -> IsDigit(c)
      [] cls = "U" -> IsUpper(c)
      [] OTHER -> c = cls

Shape3 == <<"d", "d", "d", "d", "-", "d", "d", "d">>      \* \d{4}-\d{3}
Shape2 == <<"d", "d", "d", "d", "-", "d", "d">>           \* \d{4}-\d{2}
ShapeL3 == <<"U">> \o Shape3                              \* [A-Z]\d{4}-\d{3}

HasShape(s, shape) ==
    /\ Len(s) = Len(shape)
    /\ \A k \in 1..Len(s) : ClassMatches(shape[k], s[k])

\* Variant of PDF_PART_NUMBER_PATTERNS without the letter prefix pattern
PDF_PART_NUMBER_PATTERNS_Digits == <<Shape3, Shape2>>

\* config/settings.py: each shape stands between two \b
PDF_PART_NUMBER_PATTERNS == <<Shape3, Shape2, ShapeL3>>

\* \b shape \b matches text from offset s (zero-based, as match.start())
MatchesAt(shape, text, s) ==
    /\ s + Len(shape) <= Len(text)
    /\ AtWordBoundary(text, s)
    /\ HasShape(SubSeq(text, s + 1, s + Len(shape)), shape)
    /\ AtWordBoundary(text, s + Len(shape))

\* re.finditer: the leftmost match from offset from, then the search resumes
\* where that match ended
RECURSIVE FindIter(_, _, _)
FindIter(shape, text, from) ==
    IF from + Len(shape) > Len(text) THEN <<>>
    ELSE IF MatchesAt(shape, text, from)
         THEN <<[start |-> from, end |-> from + Len(shape)]>>
                  \o FindIter(shape, text, from + Len(shape))
         ELSE FindIter(shape, text, from + 1)

RECURSIVE LStrip(_)
LStrip(s) == IF Len(s) > 0 /\ IsSpace(s[1]) THEN LStrip(Tail(s)) ELSE s

RECURSIVE RStrip(_)
RStrip(s) ==
    IF Len(s) > 0 /\ IsSpace(s[Len(s)]) THEN RStrip(SubSeq(s, 1, Len(s) - 1)) ELSE s

\* str.strip()
Strip(s) == LStrip(RStrip(s))

\* re.match(r'^shape$', s): $ matches at the end and before a final newline
MatchesAnchored(shape, s) ==
    IF HasShape(s, shape) THEN TRUE
    ELSE /\ Len(s) = Len(shape) + 1
         /\ s[Len(s)] = "\n"
         /\ HasShape(SubSeq(s, 1, Len(shape)), shape)

\* the patterns list of validate_part_number
ValidationShapes == <<Shape3, Shape2, ShapeL3>>

MIN_LENGTH == 7

\* src/utils.py validate_part_number
ValidatePartNumber(s) ==
    IF Len(s) = 0 THEN FALSE
    ELSE IF Len(s) < MIN_LENGTH THEN FALSE
    ELSE \E k \in 1..Len(ValidationShapes) : MatchesAnchored(ValidationShapes[k], s)

RECURSIVE Flatten(_)
Flatten(seqs) == IF Len(seqs) = 0 THEN <<>> ELSE Head(seqs) \o Flatten(Tail(seqs))

\* _extract_parts_from_page lines 95-98: the hits of every pattern, pattern by
\* pattern, each with match.group().strip() and match.end()
Hits(text) ==
    Flatten([k \in 1..Len(PDF_PART_NUMBER_PATTERNS) |->
        LET ms == FindIter(PDF_PART_NUMBER_PATTERNS[k], text, 0)
        IN  [j \in 1..Len(ms) |->
                [part_number |-> Strip(SubSeq(text, ms[j].start + 1, ms[j].end)),
                 end |-> ms[j].end]]])

\* lines 100-102: a hit that fails validate_part_number is dropped
Candidates(text) == SelectSeq(Hits(text), LAMBDA h : ValidatePartNumber(h.part_number))

(***************************************************************************)
(* Functions of the pipeline applied on their own: the argument is drawn   *)
(* from a bounded set and one action applies the function to it.           *)
(***************************************************************************)
MaxAround == 2      \* most characters put before and after an identifier

\* a word character of each kind, and two characters that are none
AroundChars == {"1", "A", " ", "\n"}

ID_6000_487 == <<"6", "0", "0", "0", "-", "4", "8", "7">>
ID_2015_05 == <<"2", "0", "1", "5", "-", "0", "5">>
ID_A6000_123 == <<"A", "6", "0", "0", "0", "-", "1", "2", "3">>

\* the three accepted forms, and two strings one digit short of one
Cores == {ID_6000_487, ID_2015_05, ID_A6000_123,
          <<"6", "0", "0", "-", "4", "8", "7">>, <<"6", "0", "0", "0", "-", "4">>}

MatchTexts ==
    {pre \o core \o post : pre \in SeqsUpTo(AroundChars, MaxAround), core \in Cores,
                           post \in SeqsUpTo(AroundChars, MaxAround)}

\* no run of main is going on
InitNoRun ==
    /\ catalog_ok = TRUE
    /\ pdf_opens = TRUE
    /\ update_prices = FALSE
    /\ force_refresh = FALSE
    /\ credentials = FALSE
    /\ rawParts = <<>>
    /\ InitRun

\* what a function applied on its own leaves alone
unit_frame == <<catalog_ok, pdf_opens, update_prices, force_refresh, credentials,
                rawParts, parts, fetch_vars, main_vars, pdf_pages, page_num,
                total_pages, save_ok, input, portal, files>>

\* _extract_parts_from_page lines 95-102 on one page text
MatchIdentifiers ==
    /\ pc = "match"
    /\ output' = Candidates(input)
    /\ pc' = "matched"
    /\ UNCHANGED unit_frame

\* validate_part_number on one string
ValidateCandidate ==
    /\ pc = "validate"
    /\ output' = ValidatePartNumber(input)
    /\ pc' = "validated"
    /\ UNCHANGED unit_frame

(***************************************************************************)
(* PDFExtractor._find_part_number_column and _find_description_column.     *)
(* A header row is a sequence of cells; a cell that is None or '' is the   *)
(* empty text, both being false in "if not header".                        *)
(***************************************************************************)
IndexIn(seq, c) == CHOOSE k \in 1..Len(seq) : seq[k] = c

ToLower(c) == IF IsUpper(c) THEN LowerLetters[IndexIn(UpperLetters, c)] ELSE c

ToUpper(c) == IF IsLower(c) THEN UpperLetters[IndexIn(LowerLetters, c)] ELSE c

\* str.lower()
Lower(s) == [k \in 1..Len(s) |-> ToLower(s[k])]

\* kw in s
Contains(s, kw) ==
    \E off \in 0..(Len(s) - Len(kw)) : SubSeq(s, off + 1, off + Len(kw)) = kw

part_keywords == <<<<"p", "a", "r", "t">>, <<"n", "u", "m", "b", "e", "r">>, <<"i", "t", "e", "m">>, <<"s", "k", "u">>, <<"c", "o", "d", "e">>>>

desc_keywords == <<<<"d", "e", "s", "c", "r", "i", "p", "t", "i", "o", "n">>, <<"d", "e", "s", "c">>, <<"n", "a", "m", "e">>, <<"t", "i", "t", "l", "e">>>>

\* Variant of HeaderLower that compares the header as it is written
HeaderAsWritten(header) == header

\* header_lower = str(header).lower()
HeaderLower(header) == Lower(header)

\* any(keyword in header_lower for keyword in keywords)
AnyKeywordIn(header, keywords) ==
    \E k \in 1..Len(keywords) : Contains(HeaderLower(header), keywords[k])

\* the loop over enumerate(header_row), from the one-based position i on: the
\* zero-based index of the first non-empty cell holding a keyword, or None
RECURSIVE FindColumn(_, _, _)
FindColumn(header_row, keywords, i) ==
    IF i > Len(header_row) THEN None
    ELSE IF Len(header_row[i]) = 0 THEN FindColumn(header_row, keywords, i + 1)
    ELSE IF AnyKeywordIn(header_row[i], keywords) THEN i - 1
    ELSE FindColumn(header_row, keywords, i + 1)

FindPartNumberColumn(header_row) ==
    IF Len(header_row) = 0 THEN None ELSE FindColumn(header_row, part_keywords, 1)

FindDescriptionColumn(header_row) ==
    IF Len(header_row) = 0 THEN None ELSE FindColumn(header_row, desc_keywords, 1)

MaxColumns == 3     \* most cells of a header row

H_ITEM == <<"I", "t", "e", "m", " ", "#">>
H_DESC == <<"D", "e", "s", "c">>
H_QTY == <<"Q", "t", "y">>
H_PART_NUMBER == <<"P", "a", "r", "t", " ", "N", "u", "m", "b", "e", "r">>
H_DESCRIPTION == <<"D", "e", "s", "c", "r", "i", "p", "t", "i", "o", "n">>

HeaderCells ==
    {<<>>, H_ITEM, H_DESC, H_QTY, H_PART_NUMBER, H_DESCRIPTION,
     <<"P", "A", "R", "T", " ", "N", "A", "M", "E">>, <<"B", "a", "r", "c", "o", "d", "e">>}

HeaderRows == SeqsUpTo(HeaderCells, MaxColumns)

\* _extract_parts_from_tables lines 141-142 on one header row
ResolveColumns ==
    /\ pc = "columns"
    /\ output' = [part_num_col |-> FindPartNumberColumn(input),
                  desc_col |-> FindDescriptionColumn(input)]
    /\ pc' = "resolved"
    /\ UNCHANGED unit_frame

(***************************************************************************)
(* PDFExtractor._extract_category                                          *)
(***************************************************************************)
\* the alternatives of each pattern in the order the regex engine tries them
\* at one position: pumps? tries "pumps" before "pump"
category_patterns ==
    <<<<<<"p", "u", "m", "p", "s">>,
      <<"p", "u", "m", "p">>,
      <<"m", "o", "t", "o", "r">>,
      <<"c", "o", "n", "t", "r", "o", "l", "l", "e", "r">>,
      <<"h", "e", "a", "t", "e", "r">>,
      <<"f", "i", "l", "t", "e", "r">>,
      <<"j", "e", "t">>,
      <<"l", "i", "g", "h", "t">>,
      <<"c", "o", "v", "e", "r">>,
      <<"s", "p", "a">>,
      <<"t", "u", "b">>>>,
      <<<<"e", "l", "e", "c", "t", "r", "i", "c", "a", "l">>,
      <<"p", "l", "u", "m", "b", "i", "n", "g">>,
      <<"h", "a", "r", "d", "w", "a", "r", "e">>,
      <<"a", "c", "c", "e", "s", "s", "o", "r", "y">>,
      <<"p", "a", "r", "t">>>>>>

LeastOf(S) == CHOOSE x \in S : \A y \in S : x <= y

\* re.search(pattern, line).group(1) under (?i): the text matched at the
\* leftmost offset where an alternative matches, by the first such alternative;
\* the empty text when the pattern matches nowhere
SearchKeyword(alts, line) ==
    LET at(off) == {k \in 1..Len(alts) :
                       /\ off + Len(alts[k]) <= Len(line)
                       /\ Lower(SubSeq(line, off + 1, off + Len(alts[k]))) = alts[k]}
        offs == {off \in 0..Len(line) : at(off) # {}}
    IN  IF offs = {} THEN <<>>
        ELSE LET off == LeastOf(offs)
             IN  SubSeq(line, off + 1, off + Len(alts[LeastOf(at(off))]))

\* str.title() of a run of letters
Title(s) == [k \in 1..Len(s) |-> IF k = 1 THEN ToUpper(s[k]) ELSE ToLower(s[k])]

\* text.split('\n')
RECURSIVE SplitLines(_)
SplitLines(text) ==
    LET nl == {k \in 1..Len(text) : text[k] = "\n"}
    IN  IF nl = {} THEN <<text>>
        ELSE <<SubSeq(text, 1, LeastOf(nl) - 1)>>
                 \o SplitLines(SubSeq(text, LeastOf(nl) + 1, Len(text)))

HEADER_LINES == 10

\* text.split('\n')[:10]
FirstLines(text) ==
    LET ls == SplitLines(text) IN SubSeq(ls, 1, Min(HEADER_LINES, Len(ls)))

ACCESSORIES == <<"A", "c", "c", "e", "s", "s", "o", "r", "i", "e", "s">>
PUMPS_AND_MOTORS == <<"P", "u", "m", "p", "s", " ", "&", " ", "M", "o", "t", "o", "r", "s">>
ELECTRICAL == <<"E", "l", "e", "c", "t", "r", "i", "c", "a", "l">>
PLUMBING == <<"P", "l", "u", "m", "b", "i", "n", "g">>
HARDWARE == <<"H", "a", "r", "d", "w", "a", "r", "e">>

\* Variant of PageRangeDefault whose ranges end one page later
PageRangeDefaultInclusive(n) ==
    IF n <= 50 THEN ACCESSORIES
    ELSE IF n <= 100 THEN PUMPS_AND_MOTORS
    ELSE IF n <= 150 THEN ELECTRICAL
    ELSE IF n <= 200 THEN PLUMBING
    ELSE HARDWARE

\* lines 236-246
PageRangeDefault(n) ==
    IF n < 50 THEN ACCESSORIES
    ELSE IF n < 100 THEN PUMPS_AND_MOTORS
    ELSE IF n < 150 THEN ELECTRICAL
    ELSE IF n < 200 THEN PLUMBING
    ELSE HARDWARE

\* the first match in a line: the first pattern that matches it
MatchInLine(line) ==
    IF SearchKeyword(category_patterns[1], line) # <<>>
    THEN SearchKeyword(category_patterns[1], line)
    ELSE SearchKeyword(category_patterns[2], line)

ExtractCategory(text, n) ==
    LET lines == FirstLines(text)
        hit == {i \in 1..Len(lines) : MatchInLine(lines[i]) # <<>>}
    IN  IF hit # {} THEN Title(MatchInLine(lines[LeastOf(hit)]))
        ELSE PageRangeDefault(n)

MaxLead == 11       \* most empty lines put before the rest of a page text

\* page numbers at the ends of the five ranges
PageNumbers == {1, 49, 50, 99, 100, 149, 150, 199, 200, 250}

CategoryBodies ==
    {<<>>, <<"Q", "t", "y", " ", "1", "2">>, <<"P", "U", "M", "P", "S", " ", "a", "n", "d", " ", "j", "e", "t", "s">>, <<"S", "p", "a", "r", "e", " ", "P", "a", "r", "t">>,
     <<"N", "o", ".", " ", "7", "\n", "h", "o", "t", " ", "t", "u", "b", " ", "C", "o", "v", "e", "r">>, <<"P", "l", "u", "m", "b", "i", "n", "g", ":", " ", "F", "i", "l", "t", "e", "r">>}

Newlines(n) == [k \in 1..n |-> "\n"]

CategoryInputs ==
    {[text |-> Newlines(n) \o body, page_num |-> pg] :
        n \in 0..MaxLead, body \in CategoryBodies, pg \in PageNumbers}

\* _extract_category on one page text and page number
ClassifyPage ==
    /\ pc = "classify"
    /\ output' = ExtractCategory(input.text, input.page_num)
    /\ pc' = "classified"
    /\ UNCHANGED unit_frame

(***************************************************************************)
(* PriceFetcher._parse_price_from_table.  The results table is the         *)
(* sequence of its tr rows, each with the texts of its th cells and of its *)
(* td cells; raises tells whether a call on the elements of the driver     *)
(* raises.  Amounts are in cents, as Prices; the cells of the model have   *)
(* at most two decimals.                                                   *)
(***************************************************************************)
Row(th, td) == [th |-> th, td |-> td]

NET == <<"n", "e", "t">>
PRICE == <<"p", "r", "i", "c", "e">>

\* Variant of IsNetPriceHeader that asks for "price" alone
IsNetPriceHeaderPriceOnly(header) == Contains(header, PRICE)

\* "net" in header and "price" in header
IsNetPriceHeader(header) == Contains(header, NET) /\ Contains(header, PRICE)

\* lines 308-312, from the one-based position i on: zero-based index or None
RECURSIVE FindNetPriceCol(_, _)
FindNetPriceCol(headers, i) ==
    IF i > Len(headers) THEN None
    ELSE IF IsNetPriceHeader(headers[i]) THEN i - 1
    ELSE FindNetPriceCol(headers, i + 1)

\* price_text.replace(',', '')
RemoveCommas(s) == SelectSeq(s, LAMBDA c : c # ",")

IsDigitOrComma(c) == IsDigit(c) \/ c = ","

\* [\d,]* at the head of s, greedy
RECURSIVE DigitCommaRun(_)
DigitCommaRun(s) ==
    IF Len(s) > 0 /\ IsDigitOrComma(s[1]) THEN <<s[1]>> \o DigitCommaRun(Tail(s)) ELSE <<>>

\* \d* at the head of s, greedy
RECURSIVE DigitRun(_)
DigitRun(s) ==
    IF Len(s) > 0 /\ IsDigit(s[1]) THEN <<s[1]>> \o DigitRun(Tail(s)) ELSE <<>>

\* re.search(r'[\d,]+\.?\d*', s).group(): from the leftmost digit or comma,
\* the run of digits and commas, a dot if one follows, the digits after it;
\* the empty text when s holds neither digit nor comma
SearchNumber(s) ==
    LET at == {k \in 1..Len(s) : IsDigitOrComma(s[k])}
    IN  IF at = {} THEN <<>>
        ELSE LET rest == SubSeq(s, LeastOf(at), Len(s))
                 whole == DigitCommaRun(rest)
                 after == SubSeq(rest, Len(whole) + 1, Len(rest))
             IN  IF Len(after) > 0 /\ after[1] = "."
                 THEN whole \o <<".">> \o DigitRun(Tail(after))
                 ELSE whole

DigitChars == <<"0", "1", "2", "3", "4", "5", "6", "7", "8", "9">>

RECURSIVE NumberOf(_)
NumberOf(ds) ==
    IF Len(ds) = 0 THEN 0
    ELSE NumberOf(SubSeq(ds, 1, Len(ds) - 1)) * 10 + (IndexIn(DigitChars, ds[Len(ds)]) - 1)

\* float(text), in cents; a text with a comma is a ValueError, which the
\* handler of line 335 turns into None
Float(t) ==
    IF \E k \in 1..Len(t) : t[k] = "," THEN None
    ELSE LET whole == DigitRun(t)
             frac == SubSeq(t, Len(whole) + 2, Len(t)) \o <<"0", "0">>
         IN  NumberOf(whole) * 100 + NumberOf(SubSeq(frac, 1, 2))

ParsePriceFromTable(table) ==
    IF table.raises THEN None
    ELSE IF Len(table.rows) < 2 THEN None
    ELSE LET ths == table.rows[1].th
             headers == [i \in 1..Len(ths) |-> Lower(Strip(ths[i]))]
             net_price_col == FindNetPriceCol(headers, 1)
             cells == table.rows[2].td
         IN  IF net_price_col = None THEN None
             ELSE IF Len(cells) <= net_price_col THEN None
             ELSE LET price_match == SearchNumber(RemoveCommas(Strip(cells[net_price_col + 1])))
                  IN  IF price_match = <<>> THEN None ELSE Float(price_match)

MaxRows == 2        \* most rows of a results table

TH_NET == Row(<<<<"P", "a", "r", "t">>, <<"N", "e", "t", " ", "U", "n", "i", "t", " ", "P", "r", "i", "c", "e">>>>, <<>>)
TH_LIST_NET == Row(<<<<"P", "a", "r", "t">>, <<"L", "i", "s", "t", " ", "P", "r", "i", "c", "e">>, <<" ", "N", "E", "T", " ", "P", "R", "I", "C", "E", " ">>>>, <<>>)
TD_123_45 == Row(<<>>, <<ID_6000_487, <<"$", "1", "2", "3", ".", "4", "5">>>>)
TD_1234_50 == Row(<<>>, <<ID_6000_487, <<"$", "9", ".", "9", "9">>, <<" ", "$", "1", ",", "2", "3", "4", ".", "5", "0">>>>)

TableRows ==
    {TH_NET, TH_LIST_NET, Row(<<<<"P", "a", "r", "t">>, <<"P", "r", "i", "c", "e">>>>, <<>>),
     TD_123_45, TD_1234_50, Row(<<>>, <<ID_6000_487, <<"N", "/", "A">>>>),
     Row(<<>>, <<ID_6000_487>>), Row(<<>>, <<ID_2015_05, <<"-", "5">>, <<>>>>)}

ResultsTables == [rows : SeqsUpTo(TableRows, MaxRows), raises : BOOLEAN]

\* _parse_price_from_table on one results table
ParsePrice ==
    /\ pc = "parse"
    /\ output' = ParsePriceFromTable(input)
    /\ pc' = "parsed"
    /\ UNCHANGED unit_frame

\* the function applied and its argument
InitUnits ==
    /\ InitNoRun
    /\ pdf_pages = <<>>
    /\ page_num = 0
    /\ total_pages = 0
    /\ save_ok = TRUE
    /\ output = None
    /\ files = <<>>
    /\ \/ pc \in {"match", "validate"} /\ input \in MatchTexts
       \/ pc = "columns" /\ input \in HeaderRows
       \/ pc = "classify" /\ input \in CategoryInputs
       \/ pc = "parse" /\ input \in ResultsTables

NextUnits ==
    \/ MatchIdentifiers
    \/ ValidateCandidate
    \/ ResolveColumns
    \/ ClassifyPage
    \/ ParsePrice

SpecUnits == InitUnits /\ [][NextUnits]_vars

(***************************************************************************)
(* PDFExtractor._extract_description                                       *)
(***************************************************************************)
DESCRIPTION_WINDOW == 200
SHORT_LINE == 5
DESCRIPTION_CAP == 100

\* text[a:b]
Slice(text, a, b) == SubSeq(text, a + 1, Min(b, Len(text)))

\* re.sub(r'^\W+', '', line)
RECURSIVE DropLeadingNonWord(_)
DropLeadingNonWord(s) ==
    IF Len(s) > 0 /\ ~IsWord(s[1]) THEN DropLeadingNonWord(Tail(s)) ELSE s

\* re.sub(r'\s+', ' ', line)
RECURSIVE CollapseSpaces(_)
CollapseSpaces(s) ==
    IF Len(s) = 0 THEN s
    ELSE IF IsSpace(s[1]) THEN <<" ">> \o CollapseSpaces(LStrip(s))
    ELSE <<s[1]>> \o CollapseSpaces(Tail(s))

\* the first line, stripped, of more than 5 characters, cleaned and cut
RECURSIVE FirstMeaningful(_)
FirstMeaningful(lines) ==
    IF Len(lines) = 0 THEN <<>>
    ELSE IF Len(Strip(Head(lines))) > SHORT_LINE
         THEN Slice(CollapseSpaces(DropLeadingNonWord(Strip(Head(lines)))), 0, DESCRIPTION_CAP)
         ELSE FirstMeaningful(Tail(lines))

ExtractDescription(text, start_pos) ==
    FirstMeaningful(SplitLines(Slice(text, start_pos, start_pos + DESCRIPTION_WINDOW)))

(***************************************************************************)
(* PDFExtractor._extract_parts_from_tables.  A table is a sequence of      *)
(* rows, a row a sequence of cells, a cell a text; the empty text stands   *)
(* for a cell that is None or ''.                                          *)
(***************************************************************************)
\* Variant of RowAccepted that takes whatever the identifier cell holds
RowAcceptedUnchecked(row, part_num_col) == Len(row) > part_num_col

\* lines 149-154: the row reaches the identifier column and what it holds
\* there, stripped, passes validate_part_number
RowAccepted(row, part_num_col) ==
    /\ Len(row) > part_num_col
    /\ ValidatePartNumber(Strip(row[part_num_col + 1]))

\* lines 156-158
RowDescription(row, desc_col) ==
    IF desc_col # None /\ Len(row) > desc_col /\ Len(row[desc_col + 1]) > 0
    THEN Strip(row[desc_col + 1])
    ELSE <<>>

\* the records of one table: Part(...) without category, whose default is ''
TableParts(table, n) ==
    IF Len(table) < 2 THEN <<>>
    ELSE LET part_num_col == FindPartNumberColumn(table[1])
             desc_col == FindDescriptionColumn(table[1])
         IN  IF part_num_col = None THEN <<>>
             ELSE LET rows == SelectSeq(Tail(table), LAMBDA row : RowAccepted(row, part_num_col))
                  IN  [k \in 1..Len(rows) |->
                          Part(Strip(rows[k][part_num_col + 1]),
                               RowDescription(rows[k], desc_col), <<>>, n)]

ExtractPartsFromTables(tables, n) ==
    Flatten([t \in 1..Len(tables) |-> TableParts(tables[t], n)])

(***************************************************************************)
(* PDFExtractor._extract_parts_from_page.  A page is what the parsing      *)
(* engine does with it: the text extract_text() returns (the empty text    *)
(* for None or ''), the tables extract_tables() returns, and fault, the    *)
(* call that raises: "none", "text" or "tables".                           *)
(***************************************************************************)
\* lines 95-118: one record for every accepted hit
TextParts(text, n) ==
    LET cands == Candidates(text)
    IN  [k \in 1..Len(cands) |->
            Part(cands[k].part_number, ExtractDescription(text, cands[k].end),
                 ExtractCategory(text, n), n)]

\* the handler of line 126 logs, and line 129 returns what parts holds by then
ExtractPartsFromPage(page, n) ==
    IF page.fault = "text" THEN <<>>
    ELSE IF Len(page.text) = 0 THEN <<>>
    ELSE IF page.fault = "tables" THEN TextParts(page.text, n)
    ELSE IF Len(page.tables) = 0 THEN TextParts(page.text, n)
    ELSE TextParts(page.text, n) \o ExtractPartsFromTables(page.tables, n)

MaxPages == 3       \* most pages of a document

TXT_ITEM == <<"I", "t", "e", "m", " ", "6", "0", "0", "0", "-", "4", "8", "7", " ", "P", "u", "m", "p", " ", "M", "o", "t", "o", "r", " ", "A", "s", "s", "e", "m", "b", "l", "y">>

TXT_TABLE == <<"P", "a", "r", "t", " ", "N", "u", "m", "b", "e", "r", " ", "D", "e", "s", "c", "r", "i", "p", "t", "i", "o", "n", "\n", "A", "6", "0", "0", "0", "-", "1", "2", "3", " ", "F", "i", "l", "t", "e", "r", " ", "C", "a", "r", "t", "r", "i", "d", "g", "e">>

TXT_MIXED == <<"2", "0", "1", "5", "-", "0", "5", " ", "J", "e", "t", "\n", "1", "6", "0", "0", "0", "-", "4", "8", "7", " ", "x">>

\* header ["Part Number", "Description"], row ["A6000-123", "Filter Cartridge"]
TBL_PARTS == <<<<H_PART_NUMBER, H_DESCRIPTION>>, <<ID_A6000_123, <<"F", "i", "l", "t", "e", "r", " ", "C", "a", "r", "t", "r", "i", "d", "g", "e">>>>>>

\* a row whose identifier cell is not acceptable, a short row, an empty cell,
\* and an identifier between blanks
TBL_ROWS ==
    <<<<H_QTY, H_ITEM>>, <<<<"2">>, <<"A", "2", "0", "1", "5", "-", "0", "5">>>>, <<<<"1">>>>,
      <<<<"4">>, <<>>>>, <<<<"3">>, <<" ", "6", "0", "0", "0", "-", "4", "8", "7", " ">>>>>>

Page(text, tables, fault) == [text |-> text, tables |-> tables, fault |-> fault]

P_ITEM == Page(TXT_ITEM, <<>>, "none")
P_BLANK == Page(<<>>, <<>>, "none")
P_TABLE_ONLY == Page(<<>>, <<TBL_PARTS>>, "none")
P_TABLE == Page(TXT_TABLE, <<TBL_PARTS>>, "none")

PageShapes ==
    {P_ITEM, P_BLANK, P_TABLE_ONLY, P_TABLE,
     Page(TXT_MIXED, <<TBL_ROWS, TBL_PARTS>>, "none"),
     Page(TXT_ITEM, <<TBL_PARTS>>, "tables"),
     Page(TXT_ITEM, <<TBL_PARTS>>, "text")}

\* self._extract_parts_from_page(page, page_num) for every page and page number
\* of the model
PageRecords ==
    [p \in PageShapes |-> [n \in 1..MaxPages |-> ExtractPartsFromPage(p, n)]]

\* extract_parts lines 43-55: the metadata starts with total_pages = 0; the
\* document is opened and its pages counted, or the failure return is taken
OpenDocument ==
    /\ pc = "x_open"
    /\ IF pdf_opens
       THEN /\ total_pages' = Len(pdf_pages)
            /\ page_num' = IF Len(pdf_pages) = 0 THEN 0 ELSE 1
            /\ pc' = IF Len(pdf_pages) = 0 THEN "x_post" ELSE "x_page"
            /\ parts' = parts
       ELSE /\ parts' = <<>>
            /\ pc' = "x_return"
            /\ UNCHANGED <<total_pages, page_num>>
    /\ UNCHANGED <<catalog_ok, pdf_opens, update_prices, force_refresh, credentials,
                   rawParts, fetch_vars, main_vars, pdf_pages, save_ok, input, output,
                   portal, files>>

\* lines 57-59: one turn of the page loop
ExtractPage ==
    /\ pc = "x_page"
    /\ rawParts' = rawParts \o PageRecords[pdf_pages[page_num]][page_num]
    /\ IF page_num < Len(pdf_pages)
       THEN /\ page_num' = page_num + 1
            /\ pc' = pc
       ELSE /\ page_num' = page_num
            /\ pc' = "x_post"
    /\ UNCHANGED <<catalog_ok, pdf_opens, update_prices, force_refresh, credentials,
                   parts, fetch_vars, main_vars, pdf_pages, total_pages, save_ok,
                   input, output, portal, files>>

(***************************************************************************)
(* The record files of EXTRACTS_DIR: _save_extraction_data,                *)
(* DataManager.save_parts_data and DataManager.load_previous_parts.        *)
(***************************************************************************)
\* src/utils.py sanitize_filename: re.sub(r'[<>:"/\\|?*]', '_', filename).strip()
SanitizeFilename(filename) ==
    Strip([k \in 1..Len(filename) |->
              IF filename[k] \in {"<", ">", ":", "\"", "/", "\\", "|", "?", "*"}
              THEN "_" ELSE filename[k]])

\* datetime.now().strftime('%Y%m%d_%H%M%S')
TIMESTAMP == <<"2", "0", "2", "4", "0", "1", "0", "1", "_", "1", "2", "0", "0", "0", "0">>

\* main.py setup_session: f"xtractor_{timestamp}"
SESSION_ID == <<"x", "t", "r", "a", "c", "t", "o", "r", "_">> \o TIMESTAMP

PARTS_ == <<"p", "a", "r", "t", "s", "_">>
DOT_JSON == <<".", "j", "s", "o", "n">>

\* _save_extraction_data line 330: f"parts_{sanitize_filename(metadata.filename)}_{timestamp}.json"
ExtractionFileName(filename) ==
    PARTS_ \o SanitizeFilename(filename) \o <<"_">> \o TIMESTAMP \o DOT_JSON

\* save_parts_data line 47: f"parts_data_{session_id}_{timestamp}.json"
PartsDataFileName(session_id) ==
    PARTS_ \o <<"d", "a", "t", "a", "_">> \o session_id \o <<"_">> \o TIMESTAMP \o DOT_JSON

\* what json.dump writes: an array of values, or an object with its 'parts' key
JsonArray(items) == [json |-> "array", items |-> items]

JsonObject(ps) == [json |-> "object", items |-> ps]

\* _save_extraction_data lines 329-331: the file holds the list of the dicts
ExtractionFile(ps, filename) ==
    [name |-> ExtractionFileName(filename),
     data |-> JsonArray([k \in 1..Len(ps) |-> ToDict(ps[k])])]

\* save_parts_data lines 46-61: the file holds an object whose 'parts' key has
\* the list of the dicts
PartsDataFile(ps, session_id) ==
    [name |-> PartsDataFileName(session_id),
     data |-> JsonObject([k \in 1..Len(ps) |-> ToDict(ps[k])])]

\* Path.glob(f"parts_*{sanitize_filename(catalog_name)}*.json") on one file name
GlobMatches(name, catalog_name) ==
    /\ Len(name) >= Len(PARTS_) + Len(DOT_JSON)
    /\ SubSeq(name, 1, Len(PARTS_)) = PARTS_
    /\ SubSeq(name, Len(name) - Len(DOT_JSON) + 1, Len(name)) = DOT_JSON
    /\ Contains(SubSeq(name, Len(PARTS_) + 1, Len(name) - Len(DOT_JSON)),
                SanitizeFilename(catalog_name))

\* load_previous_parts lines 280-297: the Part built from one dict of the file
FromDict(d) ==
    [part_number |-> d.part_number, description |-> d.description,
     category |-> d.category, page_reference |-> d.page_reference,
     status |-> d.status, price |-> d.unit_price,
     last_price_update |-> IF d.last_updated # None
                           THEN FromIsoFormat(d.last_updated) ELSE None,
     source_catalog |-> d.source_catalog]

\* load_previous_parts: the latest file whose name matches; data.get('parts', [])
\* raises AttributeError on an array, and the handler of line 304 returns []
LoadPreviousParts(fs, catalog_name) ==
    LET matching == SelectSeq(fs, LAMBDA f : GlobMatches(f.name, catalog_name))
    IN  IF Len(matching) = 0 THEN <<>>
        ELSE LET latest_file == matching[Len(matching)]
             IN  IF latest_file.data.json # "object" THEN <<>>
                 ELSE [k \in 1..Len(latest_file.data.items) |->
                          FromDict(latest_file.data.items[k])]

\* the catalog file of the extraction: Path(pdf_path).name
CATALOG_FILE == <<"c", "a", "t", "a", "l", "o", "g", "_", "s", "a", "m", "p", "l", "e", ".", "p", "d", "f">>

\* lines 65-82: deduplication, stamping and _save_extraction_data; when the
\* save raises, the handler of line 80 returns [] and the metadata as it is
PostProcess ==
    /\ pc = "x_post"
    /\ parts' = IF save_ok THEN EnrichPartsMetadata(DeduplicateParts(rawParts)) ELSE <<>>
    /\ files' = IF save_ok
                THEN Append(files, ExtractionFile(
                         EnrichPartsMetadata(DeduplicateParts(rawParts)), CATALOG_FILE))
                ELSE files
    /\ pc' = "x_return"
    /\ UNCHANGED <<catalog_ok, pdf_opens, update_prices, force_refresh, credentials,
                   rawParts, fetch_vars, main_vars, pdf_pages, page_num, total_pages,
                   save_ok, input, output, portal>>

InitExtract ==
    /\ pc = "x_open"
    /\ catalog_ok = TRUE
    /\ pdf_opens \in BOOLEAN
    /\ update_prices = FALSE
    /\ force_refresh = FALSE
    /\ credentials = FALSE
    /\ rawParts = <<>>
    /\ InitRun
    /\ pdf_pages \in SeqsUpTo(PageShapes, MaxPages)
    /\ page_num = 0
    /\ total_pages = 0
    /\ save_ok \in BOOLEAN
    /\ input = None
    /\ output = None
    /\ files = <<>>

NextExtract ==
    \/ OpenDocument
    \/ ExtractPage
    \/ PostProcess

SpecExtract == InitExtract /\ [][NextExtract]_vars

(***************************************************************************)
(* Export and reload: the record files a run writes for a record list, and *)
(* load_previous_parts for the catalog of the run.                         *)
(***************************************************************************)
\* the catalog file of the run and the catalog name the reload asks for
Catalogs ==
    {[filename |-> <<"c", "a", "t", ".", "p", "d", "f">>, catalog_name |-> <<"c", "a", "t">>],
     [filename |-> <<"d", "a", "t", "a", ".", "p", "d", "f">>, catalog_name |-> <<"d", "a", "t", "a">>]}

InitRoundTrip ==
    /\ pc = "rt_export"
    /\ catalog_ok = TRUE
    /\ pdf_opens = TRUE
    /\ update_prices = FALSE
    /\ force_refresh = FALSE
    /\ credentials = FALSE
    /\ rawParts = <<>>
    /\ portal = LookupOutcomes
    /\ InitIdle
    /\ pdf_pages = <<>>
    /\ page_num = 0
    /\ total_pages = 0
    /\ save_ok = TRUE
    /\ output = None
    /\ files = <<>>
    /\ parts \in PricingInputs
    /\ input \in Catalogs

\* what export and reload leave alone
roundtrip_frame == <<catalog_ok, pdf_opens, update_prices, force_refresh, credentials,
                     rawParts, parts, fetch_vars, main_vars, pdf_pages, page_num,
                     total_pages, save_ok, input, portal>>

\* PDFExtractor._save_extraction_data on the record list
SaveExtractionData ==
    /\ pc = "rt_export"
    /\ files' = Append(files, ExtractionFile(parts, input.filename))
    /\ pc' = "rt_extraction_saved"
    /\ UNCHANGED <<roundtrip_frame, output>>

\* DataManager.save_parts_data on the record list
SavePartsDataFile ==
    /\ pc = "rt_extraction_saved"
    /\ files' = Append(files, PartsDataFile(parts, SESSION_ID))
    /\ pc' = "rt_parts_data_saved"
    /\ UNCHANGED <<roundtrip_frame, output>>

\* DataManager.load_previous_parts for the catalog, after the extraction of a
\* run or after the whole run
ReloadPreviousParts ==
    /\ pc \in {"rt_extraction_saved", "rt_parts_data_saved"}
    /\ output' = LoadPreviousParts(files, input.catalog_name)
    /\ pc' = "rt_reloaded"
    /\ UNCHANGED <<roundtrip_frame, files>>

NextRoundTrip ==
    \/ SaveExtractionData
    \/ SavePartsDataFile
    \/ ReloadPreviousParts

SpecRoundTrip == InitRoundTrip /\ [][NextRoundTrip]_vars

\* extract_parts took its failure return (line 82)
ExtractFailed == ~pdf_opens \/ ~save_ok

(***************************************************************************)
(* Observations on a run, used by the properties below.                    *)
(***************************************************************************)
\* the identifiers looked up so far, in the order of the lookups
LookedUp ==
    LET ls == SelectSeq(events, LAMBDA e : e.op = "lookup")
    IN  [k \in 1..Len(ls) |-> ls[k].arg]

\* the identifiers of fetch_prices' input list, in input order
InputIds == [k \in 1..Len(parts_to_price) |-> parts[parts_to_price[k]].part_number]

\* one-based position in the input list of the record the loop is at
FlatIndex == (chunk_num - 1) * CHUNK_SIZE + pos

CountOp(op) == Cardinality({k \in 1..Len(events) : events[k].op = op})

AllEntries == {k \in 1..Len(errors) : errors[k].part_number = "ALL"}

\* fetch_prices is running: from _setup_driver to the end of the finally clause
InFetch == pc \in {"fp_setup", "fp_login", "fp_nav", "fp_lookup", "fp_sleep",
                   "fp_except", "fp_finally"}

\* fetch_prices has returned and process_catalog has not yet used the result
FetchReturned == pc = "fp_return"

\* the record at position i of parts is as extraction left it
Untouched(i) == parts[i] = ExtractedParts[i]

(***************************************************************************)
(* C1: when fetch_prices ends, on whatever path, every browser driver the   *)
(* call started has had quit() called on it and self.driver is cleared.    *)
(***************************************************************************)
C1_DriverReleased ==
    ~InFetch => /\ driver = "none"
                /\ quits = CountOp("start")

\* the call ended through the handler of line 117 with a driver to release
C1_Witness ==
    /\ FetchReturned
    /\ quits = 1
    /\ \E k \in AllEntries : errors[k].error_type = UNEXPECTED

(***************************************************************************)
(* C2: once login and navigation succeeded, the lookups made are the       *)
(* records of the input list, each once and in input order, whatever the   *)
(* earlier lookups returned; when the loop ends without a session-level    *)
(* exception every record of the input has been looked up.                 *)
(***************************************************************************)
C2_EveryRecordLookedUpOnce ==
    (nav_result = "ok" /\ (InFetch \/ FetchReturned)) =>
        /\ Len(LookedUp) <= Len(InputIds)
        /\ LookedUp = SubSeq(InputIds, 1, Len(LookedUp))
        /\ (pc = "fp_lookup" => Len(LookedUp) = FlatIndex - 1)
        /\ (pc = "fp_sleep" => Len(LookedUp) = FlatIndex)
        /\ ((FetchReturned /\ AllEntries = {}) => LookedUp = InputIds)

\* three records, the first two lookups failed, the third was still made
C2_Witness ==
    /\ FetchReturned
    /\ nav_result = "ok"
    /\ AllEntries = {}
    /\ Len(parts_to_price) = 3
    /\ parts[parts_to_price[1]].status = PRICE_FAILED
    /\ parts[parts_to_price[2]].status = PRICE_FAILED
    /\ parts[parts_to_price[3]].status = PRICED

(***************************************************************************)
(* C3: when a wait of the navigation (one of the three links or the lookup *)
(* form) times out, no lookup is made, no record changes, the updated list *)
(* is empty and fetch_prices returns the single error ("ALL", network).    *)
(***************************************************************************)
C3_NavigationTimeoutFailsRun ==
    nav_result = "timeout" =>
        /\ LookedUp = <<>>
        /\ pc \notin {"fp_lookup", "fp_sleep"}
        /\ parts = ExtractedParts
        /\ updated_parts = <<>>
        /\ errors = <<ProcessingError("ALL", NETWORK_ERROR, 0)>>

\* the three links were clicked and the wait for the lookup form timed out
C3_Witness ==
    /\ FetchReturned
    /\ nav_result = "timeout"
    /\ CountOp("click") = Len(NavLinks)

(***************************************************************************)
(* C4 as stated: whenever the credential store lacks the portal's entry,   *)
(* or the page after the login lacks the marker, fetch_prices returns the  *)
(* single error ("ALL", login-failure), no navigation, no lookup, no       *)
(* record changed, nothing updated.                                        *)
(***************************************************************************)
LoginFailureOutcome ==
    /\ CountOp("click") = 0
    /\ LookedUp = <<>>
    /\ parts = ExtractedParts
    /\ updated_parts = <<>>
    /\ errors = <<ProcessingError("ALL", LOGIN_FAILED, 0)>>

C4_AsStated ==
    (FetchReturned /\ (~credentials \/ login_result = "no_marker")) => LoginFailureOutcome

(***************************************************************************)
(* C4 amended: when _login finds no entry for the portal in the credential *)
(* store, or finds no marker on the page after the login, the outcome is   *)
(* the one above.  _login runs only after the browser driver has started:  *)
(* when the driver cannot start, the single "ALL" entry is of kind         *)
(* unexpected, with or without credentials.                                *)
(***************************************************************************)
C4_LoginFailureFailsRun ==
    (FetchReturned /\ login_result \in {"no_credentials", "no_marker"}) => LoginFailureOutcome

\* the driver started and the credential store had no entry for the portal
C4_Witness ==
    /\ FetchReturned
    /\ login_result = "no_credentials"
    /\ quits = 1

(***************************************************************************)
(* The session states of the specification, read off the position of the   *)
(* run.  In the handler and in the finally clause the session is still in  *)
(* the state it was in when the call left the normal path.                 *)
(***************************************************************************)
\* fetch_prices is called by the run: the catalog is valid, pricing is asked for
\* and extraction yields a record
FetchIsCalled == catalog_ok /\ update_prices /\ Len(ExtractedParts) > 0

SessionState ==
    CASE pc \in {"main", "extract", "select", "fp_setup"} -> "idle"
      [] pc = "fp_login" -> "authenticating"
      [] pc = "fp_nav" -> "navigating"
      [] pc \in {"fp_lookup", "fp_sleep"} ->
            IF LookedUp = <<>> THEN "ready" ELSE "fetching"
      [] pc \in {"fp_except", "fp_finally"} ->
            IF LookedUp # <<>> THEN "fetching"
            ELSE IF nav_result = "ok" THEN "ready"
            ELSE IF nav_result # "none" THEN "navigating"
            ELSE IF login_result # "none" THEN "authenticating"
            ELSE "idle"
      [] OTHER -> IF FetchIsCalled THEN "closed" ELSE "idle"

Rank(st) ==
    CASE st = "idle" -> 0
      [] st = "authenticating" -> 1
      [] st = "navigating" -> 2
      [] st = "ready" -> 3
      [] st = "fetching" -> 4
      [] st = "closed" -> 5

(***************************************************************************)
(* C5: the session goes through idle, authenticating, navigating, ready,   *)
(* fetching, closed in this order, one state at a time or straight to      *)
(* closed; a lookup is issued only in ready or fetching, after login and   *)
(* navigation succeeded; once closed, the driver is not used again; and    *)
(* every call of fetch_prices reaches closed.                              *)
(***************************************************************************)
C5_SessionStep ==
    /\ Rank(SessionState') \in {Rank(SessionState), Rank(SessionState) + 1, Rank("closed")}
    /\ (Len(LookedUp') > Len(LookedUp) =>
            /\ SessionState \in {"ready", "fetching"}
            /\ is_logged_in
            /\ login_result = "ok"
            /\ nav_result = "ok")
    /\ (SessionState = "closed" =>
            /\ SessionState' = "closed"
            /\ events' = events
            /\ driver' = "none")

C5_SessionOrder ==
    /\ [][C5_SessionStep]_vars
    /\ (pc = "fp_setup") ~> (SessionState = "closed")

\* a session that went through every state: lookups were made and it is closed
C5_Witness ==
    /\ SessionState = "closed"
    /\ Len(LookedUp) >= 2
    /\ quits = 1

(***************************************************************************)
(* C6: when an exception leaves the chunk loop, the records not yet looked *)
(* up are left as they were, one "ALL" entry is added, and every record    *)
(* priced before is returned in the updated list, priced, with its price   *)
(* and its timestamp.                                                      *)
(***************************************************************************)
\* the handler of line 117 has run for an exception raised in the chunk loop
LoopAborted ==
    /\ pc \in {"fp_finally", "fp_return"}
    /\ nav_result = "ok"
    /\ AllEntries # {}

C6_SessionExceptionKeepsResults ==
    LoopAborted =>
        /\ Cardinality(AllEntries) = 1
        /\ errors[Len(errors)] = ProcessingError("ALL", UNEXPECTED, 0)
        /\ \A k \in (Len(LookedUp) + 1)..Len(parts_to_price) : Untouched(parts_to_price[k])
        /\ \A k \in 1..Len(LookedUp) :
              parts[parts_to_price[k]].status = PRICED =>
                  \E j \in 1..Len(updated_parts) : updated_parts[j] = parts_to_price[k]
        /\ \A j \in 1..Len(updated_parts) :
              /\ parts[updated_parts[j]].status = PRICED
              /\ parts[updated_parts[j]].price \in Prices
              /\ parts[updated_parts[j]].last_price_update # None

\* the loop was left after a priced record and before the last record
C6_Witness ==
    /\ FetchReturned
    /\ LoopAborted
    /\ Len(updated_parts) >= 1
    /\ Len(LookedUp) < Len(parts_to_price)

(***************************************************************************)
(* C7: the run exits with status 0 only if a record was extracted and no   *)
(* phase failed as a whole; a run whose pricing phase failed as a whole    *)
(* (driver cannot start, cannot authenticate, cannot reach the lookup      *)
(* form) exits with a non-zero status.                                     *)
(***************************************************************************)
\* _setup_driver raised: the handler of line 117 ran before any login
DriverStartFailed == AllEntries # {} /\ login_result = "none"

LoginFailed == login_result \notin {"none", "ok"}

NavigationFailed == nav_result \notin {"none", "ok"}

PricingFailedAsAWhole == DriverStartFailed \/ LoginFailed \/ NavigationFailed

C7_SuccessOnlyWithoutFatalError ==
    /\ exit_status = 0 =>
          /\ catalog_ok
          /\ pdf_opens
          /\ Len(ExtractedParts) >= 1
          /\ ~PricingFailedAsAWhole
    /\ (pc = "exit" /\ PricingFailedAsAWhole) => exit_status = 1

\* records were extracted and saved, the login failed, the run exits with 1
C7_Witness ==
    /\ pc = "exit"
    /\ login_result = "no_marker"
    /\ Len(persisted) >= 1
    /\ exit_status = 1

(***************************************************************************)
(* C8: when records were extracted and the login or the navigation failed, *)
(* the output phase runs and the saved record set holds every extracted    *)
(* record, without a price and with the status extraction gave it.         *)
(***************************************************************************)
C8_UnpricedExportAfterPricingFailure ==
    ((LoginFailed \/ NavigationFailed) /\ pc \in {"finalize", "exit"}) =>
        /\ Len(ExtractedParts) >= 1
        /\ persisted = [k \in 1..Len(ExtractedParts) |-> ToDict(ExtractedParts[k])]
        /\ \A k \in 1..Len(persisted) :
              /\ persisted[k].unit_price = None
              /\ persisted[k].status = EXTRACTED

\* three records were extracted, the navigation timed out, the run has ended
C8_Witness ==
    /\ pc = "exit"
    /\ nav_result = "timeout"
    /\ Len(persisted) = 3

(***************************************************************************)
(* C9: every change of a record's status is an edge of the lifecycle       *)
(* extracted -> price_pending -> priced | price_failed (price_failed may   *)
(* go back to price_pending), and a record is in price_pending when its    *)
(* lookup is made.                                                         *)
(***************************************************************************)
LifecycleEdges ==
    {<<EXTRACTED, PRICE_PENDING>>, <<PRICE_PENDING, PRICED>>,
     <<PRICE_PENDING, PRICE_FAILED>>, <<PRICE_FAILED, PRICE_PENDING>>}

C9_LifecycleStep ==
    /\ (Len(LookedUp') > Len(LookedUp) => parts[CurrentPart].status = PRICE_PENDING)
    /\ (Len(parts') = Len(parts) =>
            \A i \in 1..Len(parts) :
                parts'[i].status # parts[i].status =>
                    <<parts[i].status, parts'[i].status>> \in LifecycleEdges)

C9_StatusFollowsLifecycle == [][C9_LifecycleStep]_vars

(***************************************************************************)
(* C10: the deduplicated list has one record per identifier of the input,  *)
(* namely the first record in input order among those of the identifier    *)
(* whose len(description) + len(category) is maximal; for "6000-487" a     *)
(* record with lengths 3 + 10 is kept over one with lengths 5 + 0.         *)
(***************************************************************************)
IdsOf(ps) == {ps[k].part_number : k \in 1..Len(ps)}

\* the least position of ps holding a record of pn of maximal key
FirstBest(ps, pn) ==
    LET same == {j \in 1..Len(ps) : ps[j].part_number = pn}
        best == {j \in same : \A m \in same : InfoKey(ps[m]) <= InfoKey(ps[j])}
    IN  CHOOSE j \in best : \A m \in best : j <= m

C10_KeepsFirstMostComplete ==
    pc = "deduped" =>
        /\ IdsOf(parts) = IdsOf(rawParts)
        /\ Len(parts) = Cardinality(IdsOf(rawParts))
        /\ \A k \in 1..Len(parts) :
              parts[k] = rawParts[FirstBest(rawParts, parts[k].part_number)]
        /\ (rawParts = <<Part("6000-487", "Pump ", "", 1), Part("6000-487", "Jet", "Pumps & Mo", 1)>>
               => parts = <<Part("6000-487", "Jet", "Pumps & Mo", 1)>>)

\* three records of one identifier: the last two differ and share the maximal key
C10_Witness ==
    /\ pc = "deduped"
    /\ Len(rawParts) = 3
    /\ Len(parts) = 1
    /\ InfoKey(rawParts[1]) < InfoKey(rawParts[2])
    /\ InfoKey(rawParts[2]) = InfoKey(rawParts[3])
    /\ rawParts[2] # rawParts[3]
    /\ parts[1] = rawParts[2]

(***************************************************************************)
(* C11: deduplication is idempotent and never lengthens the list: applied  *)
(* to its own result it returns the same records in the same order, and    *)
(* its result is never longer than its input.                              *)
(***************************************************************************)
C11_DedupIdempotentNonExpanding ==
    /\ pc = "deduped" => Len(parts) <= Len(rawParts)
    /\ pc = "deduped2" =>
          /\ parts = DeduplicateParts(rawParts)
          /\ Len(parts) <= Len(rawParts)

\* three records of one identifier among which the second call has to choose
\* nothing any more: the first call reduced them to one
C11_Witness ==
    /\ pc = "deduped2"
    /\ Len(rawParts) = 3
    /\ Cardinality(IdsOf(rawParts)) = 1
    /\ Cardinality({rawParts[k] : k \in 1..3}) = 3
    /\ Len(parts) = 1

(***************************************************************************)
(* C12: every substring of a page text that has one of the accepted forms  *)
(* and stands between two word boundaries (it is neither preceded nor      *)
(* followed by a letter, a digit or an underscore) is among the candidates *)
(* the matching step reports; and a text none of whose substrings passes   *)
(* validate_part_number yields no candidate.                               *)
(***************************************************************************)
\* the substrings of text, each by the offsets that delimit it
Spans(text) == {sp \in (0..Len(text)) \X (0..Len(text)) : sp[1] < sp[2]}

Sub(text, sp) == SubSeq(text, sp[1] + 1, sp[2])

CandidateIds(cands) == {cands[k].part_number : k \in 1..Len(cands)}

\* s is written in one of the forms validate_part_number accepts
WellFormed(s) == \E k \in 1..Len(ValidationShapes) : HasShape(s, ValidationShapes[k])

NoSubstringAccepted(text) ==
    \A sp \in Spans(text) : ~ValidatePartNumber(Sub(text, sp))

\* C12 as the claim states it: whatever characters surround the substring
C12_AsStated ==
    pc = "matched" =>
        /\ \A sp \in Spans(input) :
              ValidatePartNumber(Sub(input, sp)) => Sub(input, sp) \in CandidateIds(output)
        /\ NoSubstringAccepted(input) => output = <<>>

C12_BoundedSubstringsReported ==
    pc = "matched" =>
        /\ \A sp \in Spans(input) :
              (/\ WellFormed(Sub(input, sp))
               /\ AtWordBoundary(input, sp[1])
               /\ AtWordBoundary(input, sp[2]))
                  => Sub(input, sp) \in CandidateIds(output)
        /\ NoSubstringAccepted(input) => output = <<>>

\* " A6000-123\n": the identifier is reported, and its substring "6000-123",
\* which follows a letter, is not
C12_Witness ==
    /\ pc = "matched"
    /\ Len(input) > Len(ID_A6000_123) + 1
    /\ \E sp \in Spans(input) : sp[1] > 0 /\ sp[2] < Len(input) /\ Sub(input, sp) = ID_A6000_123
    /\ CandidateIds(output) = {ID_A6000_123}

(***************************************************************************)
(* C13: a string is accepted by validate_part_number exactly when its      *)
(* length is between 7 and 15 and it is 4 digits, a hyphen and 2 or 3      *)
(* digits, optionally preceded by one uppercase letter; in particular the  *)
(* 2-digit suffix is accepted with the letter prefix as without it.        *)
(***************************************************************************)
MAX_LENGTH == 15

C13_AcceptedExactlyWhenWellFormed ==
    LET ShapeL2 == <<"U">> \o Shape2
        claimed(s) ==
            /\ Len(s) >= MIN_LENGTH
            /\ Len(s) <= MAX_LENGTH
            /\ \E shape \in {Shape3, Shape2, ShapeL3, ShapeL2} : HasShape(s, shape)
    IN  pc = "validated" => output = claimed(input)

(***************************************************************************)
(* C15: the identifier column of a header row is the least index whose     *)
(* non-empty cell contains, whatever its case, one of part, number, item,  *)
(* sku, code, and None when no cell does; the description column is found  *)
(* the same way, independently, with description, desc, name, title.       *)
(* ["Item #", "Desc", "Qty"] gives columns 0 and 1.                        *)
(***************************************************************************)
\* the zero-based least index of a non-empty cell that contains a keyword
LeastKeywordIndex(row, keywords) ==
    LET hit == {i \in 1..Len(row) :
                   /\ row[i] # <<>>
                   /\ \E k \in 1..Len(keywords) : Contains(Lower(row[i]), keywords[k])}
    IN  IF hit = {} THEN None ELSE (CHOOSE i \in hit : \A j \in hit : i <= j) - 1

C15_FirstKeywordCellWins ==
    pc = "resolved" =>
        /\ output.part_num_col = LeastKeywordIndex(input, part_keywords)
        /\ output.desc_col = LeastKeywordIndex(input, desc_keywords)
        /\ input = <<H_ITEM, H_DESC, H_QTY>> => output = [part_num_col |-> 0, desc_col |-> 1]

\* an empty cell, a cell without keyword, then "PART NAME", which holds a keyword
\* of each set in capitals
C15_Witness ==
    /\ pc = "resolved"
    /\ Len(input) = 3
    /\ input[1] = <<>>
    /\ input[2] = H_QTY
    /\ output = [part_num_col |-> 2, desc_col |-> 2]

(***************************************************************************)
(* C16: for every page text and every page number from 1 on, the category  *)
(* returned is a non-empty label: when one of the first 10 lines contains  *)
(* a category keyword it is a keyword found in the first such line, with   *)
(* its first letter in upper case and the rest in lower case; otherwise it *)
(* is the default of the one page range, among 1-49, 50-99, 100-149,       *)
(* 150-199 and 200 on, that contains the page number.                      *)
(***************************************************************************)
AllKeywords == SetOf(category_patterns[1]) \cup SetOf(category_patterns[2])

HasKeyword(line) == \E kw \in AllKeywords : Contains(Lower(line), kw)

\* the five ranges; the last has no upper end
PageRanges ==
    <<[lo |-> 1, hi |-> 49, label |-> ACCESSORIES],
      [lo |-> 50, hi |-> 99, label |-> PUMPS_AND_MOTORS],
      [lo |-> 100, hi |-> 149, label |-> ELECTRICAL],
      [lo |-> 150, hi |-> 199, label |-> PLUMBING],
      [lo |-> 200, hi |-> None, label |-> HARDWARE]>>

InRange(r, n) == r.lo <= n /\ (r.hi = None \/ n <= r.hi)

C16_CategoryTotal ==
    pc = "classified" =>
        LET lines == SplitLines(input.text)
            head == {i \in 1..Len(lines) : i <= 10 /\ HasKeyword(lines[i])}
            ranges == {k \in 1..Len(PageRanges) : InRange(PageRanges[k], input.page_num)}
        IN  /\ Len(output) > 0
            /\ Cardinality(ranges) = 1
            /\ IF head # {}
               THEN /\ Lower(output) \in AllKeywords
                    /\ output = Title(output)
                    /\ Contains(Lower(lines[LeastOf(head)]), Lower(output))
               ELSE \A k \in ranges : output = PageRanges[k].label

\* ten empty lines, then a line with a keyword: the default of page 50 is returned
C16_Witness ==
    /\ pc = "classified"
    /\ Len(SplitLines(input.text)) > 10
    /\ \A i \in 1..10 : SplitLines(input.text)[i] = <<>>
    /\ HasKeyword(SplitLines(input.text)[11])
    /\ input.page_num = 50
    /\ output = PUMPS_AND_MOTORS

(***************************************************************************)
(* C14: every record of the set extraction returns, and every record the   *)
(* pages yielded before deduplication, has a non-empty identifier that     *)
(* passes validate_part_number, has status extracted, and carries the      *)
(* one-based number of a page of the document on which its identifier      *)
(* stands, in the text or in a table cell.                                 *)
(***************************************************************************)
\* the cells of the tables of a page, stripped
StrippedCells(page) ==
    UNION {UNION {{Strip(page.tables[t][r][c]) : c \in 1..Len(page.tables[t][r])} :
                     r \in 1..Len(page.tables[t])} :
              t \in 1..Len(page.tables)}

\* the identifier stands on the page
StandsOn(pn, page) == Contains(page.text, pn) \/ pn \in StrippedCells(page)

WellExtracted(p) ==
    /\ Len(p.part_number) > 0
    /\ ValidatePartNumber(p.part_number)
    /\ p.status = EXTRACTED
    /\ p.page_reference \in 1..Len(pdf_pages)
    /\ StandsOn(p.part_number, pdf_pages[p.page_reference])

C14_RecordsAreWellFormed ==
    pc \in {"x_page", "x_post", "x_return"} =>
        /\ \A k \in 1..Len(rawParts) : WellExtracted(rawParts[k])
        /\ \A k \in 1..Len(parts) : WellExtracted(parts[k])

\* the returned set holds a record from the text of page 1 and one from a
\* table of page 2, whose other rows were dropped
C14_Witness ==
    /\ pc = "x_return"
    /\ Len(pdf_pages) >= 2
    /\ pdf_pages[2].tables = <<TBL_ROWS, TBL_PARTS>>
    /\ \E k \in 1..Len(parts) :
          parts[k].page_reference = 1 /\ Len(parts[k].category) > 0
    /\ \E k \in 1..Len(parts) :
          /\ parts[k].page_reference = 2
          /\ parts[k].category = <<>>
          /\ parts[k].part_number = ID_6000_487

(***************************************************************************)
(* C17: a page whose extraction raises, while its text is read or, after   *)
(* text records were found, while its tables are read, contributes no      *)
(* record, and every other page contributes the records it holds.          *)
(***************************************************************************)
\* a call of the parsing engine raised while the page was processed
PageRaised(page) ==
    IF page.fault = "text" THEN TRUE
    ELSE page.fault = "tables" /\ Len(page.text) > 0

RecordsOfPage(ps, n) == SelectSeq(ps, LAMBDA p : p.page_reference = n)

C17_FailedPageContributesNothing ==
    pc \in {"x_post", "x_return"} /\ pdf_opens =>
        \A n \in 1..Len(pdf_pages) :
            IF PageRaised(pdf_pages[n])
            THEN RecordsOfPage(rawParts, n) = <<>>
            ELSE RecordsOfPage(rawParts, n) = PageRecords[pdf_pages[n]][n]

(***************************************************************************)
(* C18: whenever extract_parts takes its failure return, the record set    *)
(* it returns is empty and the total_pages of the metadata is 0.           *)
(***************************************************************************)
C18_FailureReturnsEmptyAndZeroPages ==
    pc = "x_return" /\ ExtractFailed => parts = <<>> /\ total_pages = 0

(***************************************************************************)
(* C19: when no call raises, the identifiers of the returned records are   *)
(* the accepted hits in the text of every page together with the accepted  *)
(* identifier cells of every table of every page, a page with tables and   *)
(* no text included.  The document of page 1 "Item 6000-487 Pump Motor     *)
(* Assembly", a blank page 2 and on page 3 the table ["Part Number",       *)
(* "Description"] / ["A6000-123", "Filter Cartridge"] yields the two       *)
(* records "6000-487" and "A6000-123", both with status extracted.         *)
(***************************************************************************)
\* the identifiers a page holds, whether or not it has text
IdsOnPage(page, n) ==
    CandidateIds(Candidates(page.text)) \cup IdsOf(ExtractPartsFromTables(page.tables, n))

\* per page of the model
PageIds == [p \in PageShapes |-> IdsOnPage(p, 1)]

NetPriceHeaders(row) ==
    {i \in 1..Len(row.th) : Contains(Lower(row.th[i]), NET) /\ Contains(Lower(row.th[i]), PRICE)}

HasDigit(s) == \E k \in 1..Len(s) : IsDigit(s[k])

\* the amounts, in cents, written in the cells of the model
AmountWritten ==
    {<<<<"$", "1", "2", "3", ".", "4", "5">>, 12345>>, <<<<"$", "9", ".", "9", "9">>, 999>>,
     <<<<" ", "$", "1", ",", "2", "3", "4", ".", "5", "0">>, 123450>>, <<<<"-", "5">>, 500>>}

C20_ParsePriceTotal ==
    pc = "parsed" =>
        /\ output = None \/ output >= 0
        /\ Len(input.rows) < 2 => output = None
        /\ Len(input.rows) >= 2 /\ NetPriceHeaders(input.rows[1]) = {} => output = None
        /\ (/\ Len(input.rows) >= 2
            /\ NetPriceHeaders(input.rows[1]) # {}
            /\ ~input.raises)
              => LET col == LeastOf(NetPriceHeaders(input.rows[1]))
                     cells == input.rows[2].td
                 IN  IF Len(cells) < col THEN output = None
                     ELSE IF ~HasDigit(cells[col]) THEN output = None
                     ELSE <<cells[col], output>> \in AmountWritten
        /\ input = [rows |-> <<TH_NET, TD_123_45>>, raises |-> FALSE] => output = 12345
        /\ input.rows = <<TH_NET>> => output = None

\* "List Price" comes before " NET PRICE ": the amount of the third column is
\* returned, without its sign and its separator
C20_Witness ==
    /\ pc = "parsed"
    /\ input = [rows |-> <<TH_LIST_NET, TD_1234_50>>, raises |-> FALSE]
    /\ output = 123450

(***************************************************************************)
(* Delays of the lookup loop, from the events of the call.                 *)
(***************************************************************************)
REQUEST_DELAY == 2     \* seconds

\* time.sleep(REQUEST_DELAY) after a lookup, time.sleep(REQUEST_DELAY * 2)
\* between chunks; no other event of the loop waits
DelayOf(op) ==
    CASE op = "sleep" -> REQUEST_DELAY
      [] op = "pause" -> REQUEST_DELAY * 2
      [] OTHER -> 0

\* positions in events of the lookups, in order
LookupPositions ==
    SelectSeq([k \in 1..Len(events) |-> k], LAMBDA k : events[k].op = "lookup")

\* seconds slept strictly between the events at positions a and b
RECURSIVE DelayBetween(_, _)
DelayBetween(a, b) ==
    IF a + 1 >= b THEN 0 ELSE DelayOf(events[a + 1].op) + DelayBetween(a + 1, b)

\* the k-th record of the input closes a chunk of CHUNK_SIZE records
ClosesChunk(k) == k % CHUNK_SIZE = 0

(***************************************************************************)
(* C21: in one fetch_prices call a lookup starts only after the delay of   *)
(* the previous one; the input is cut into consecutive chunks of 10 in     *)
(* input order, only the last of which may be shorter, and the k-th lookup *)
(* is the record at position k of the input, taken from chunk              *)
(* (k-1) div 10 + 1; between two consecutive lookups of a chunk lies the   *)
(* fixed delay, between the last lookup of a chunk and the first of the    *)
(* next lie the fixed delay and the longer one; after the last lookup of   *)
(* the input lies the fixed delay only.                                    *)
(***************************************************************************)
C21_ChunkedSequentialLookups ==
    LET lp == LookupPositions
        n == Len(lp)
    IN  /\ CountOp("lookup") - CountOp("sleep") \in {0, 1}
        /\ pc = "fp_lookup" => CountOp("lookup") = CountOp("sleep")
        /\ Flatten(chunks) = parts_to_price
        /\ \A c \in 1..Len(chunks) :
              \/ Len(chunks[c]) = CHUNK_SIZE
              \/ c = Len(chunks) /\ Len(chunks[c]) \in 1..CHUNK_SIZE
        /\ n <= Len(InputIds)
        /\ \A k \in 1..n : events[lp[k]].arg = InputIds[k]
        /\ (pc = "fp_sleep") =>
              /\ chunk_num = ((n - 1) \div CHUNK_SIZE) + 1
              /\ pos = ((n - 1) % CHUNK_SIZE) + 1
        /\ \A k \in 1..(n - 1) :
              DelayBetween(lp[k], lp[k + 1]) =
                  IF ClosesChunk(k) THEN REQUEST_DELAY + REQUEST_DELAY * 2 ELSE REQUEST_DELAY
        /\ (n > 0 /\ n = Len(InputIds)) =>
              DelayBetween(lp[n], Len(events) + 1) \in {0, REQUEST_DELAY}

\* 21 records were looked up in chunks of 10, 10 and 1, with two longer delays
C21_Witness ==
    /\ FetchReturned
    /\ AllEntries = {}
    /\ Len(chunks) = 3
    /\ Len(chunks[3]) = 1
    /\ CountOp("lookup") = 21
    /\ CountOp("pause") = 2

(***************************************************************************)
(* Observations on the pricing phase applied on its own: input is the      *)
(* record list as it was before pricing started.                           *)
(***************************************************************************)
\* the entry of identifier pn in the record list ps
EntryOf(ps, pn) == ps[CHOOSE i \in 1..Len(ps) : ps[i].part_number = pn]

\* the identifiers of the records fetch_prices returned
ReturnedIds == {parts[updated_parts[k]].part_number : k \in 1..Len(updated_parts)}

\* the identifiers fetch_prices recorded a per-record error for
FailedIds == {errors[k].part_number : k \in 1..Len(errors)} \ {"ALL"}

\* every identifier of ps occurs once
DistinctIds(ps) == Cardinality(IdsOf(ps)) = Len(ps)

\* the merge keeps the identifiers and puts every returned record in its entry
MergeKeepsIdsAndTakesReturned ==
    /\ Len(parts') = Len(input)
    /\ IdsOf(parts') = IdsOf(input)
    /\ DistinctIds(parts')
    /\ \A k \in 1..Len(updated_parts) :
          LET fetched == parts[updated_parts[k]]
          IN  EntryOf(parts', fetched.part_number) = fetched

(***************************************************************************)
(* C22 as stated: after the merge the record set has the identifiers it    *)
(* had, each once; the entry of every returned identifier is the fetched   *)
(* record; every other entry has the field values it had before pricing    *)
(* started.                                                                *)
(***************************************************************************)
C22_MergeStepAsStated ==
    (pc = "fp_return" /\ pc' = "output") =>
        /\ MergeKeepsIdsAndTakesReturned
        /\ \A i \in 1..Len(input) :
              input[i].part_number \notin ReturnedIds =>
                  EntryOf(parts', input[i].part_number) = input[i]

C22_AsStated == [][C22_MergeStepAsStated]_vars

(***************************************************************************)
(* C22 amended: after the merge the record set has the identifiers it had, *)
(* each once; the entry of every returned identifier is the fetched        *)
(* record; every other entry is as the price fetch left it: with the field *)
(* values it had before pricing started, except that the status of a       *)
(* record whose lookup failed is price_failed.                             *)
(***************************************************************************)
C22_MergeStep ==
    (pc = "fp_return" /\ pc' = "output") =>
        /\ MergeKeepsIdsAndTakesReturned
        /\ \A i \in 1..Len(input) :
              LET pn == input[i].part_number
              IN  pn \notin ReturnedIds =>
                     /\ EntryOf(parts', pn) = EntryOf(parts, pn)
                     /\ EntryOf(parts', pn) =
                           IF pn \in FailedIds
                           THEN [input[i] EXCEPT !.status = PRICE_FAILED]
                           ELSE input[i]

C22_MergeReplacesReturnedOnly == [][C22_MergeStep]_vars

\* merged: the first record was returned with a new price, the lookup of the
\* second failed and it keeps the price of an earlier session
C22_Witness ==
    /\ pc = "output"
    /\ Len(parts) = 2
    /\ updated_parts = <<1>>
    /\ parts[1].status = PRICED
    /\ parts[1].last_price_update > StartTime
    /\ input[2].status = PRICED
    /\ parts[2].status = PRICE_FAILED
    /\ parts[2].price = input[2].price

(***************************************************************************)
(* C23: the record list reloaded by load_previous_parts for the catalog of *)
(* the run has one record per exported record, with the identifier, the    *)
(* description, the category, the price, the status and the source catalog *)
(* of the exported record.                                                 *)
(***************************************************************************)
SameRecordData(a, b) ==
    /\ a.part_number = b.part_number
    /\ a.description = b.description
    /\ a.category = b.category
    /\ a.price = b.price
    /\ a.status = b.status
    /\ a.source_catalog = b.source_catalog

\* the reloaded list is the exported one, field by field
Reconstructed ==
    /\ Len(output) = Len(parts)
    /\ \A k \in 1..Len(parts) : SameRecordData(output[k], parts[k])

C23_ReloadReconstructsExport ==
    pc = "rt_reloaded" => Reconstructed

(***************************************************************************)
(* C24: no record has a pricing field written before extraction (all       *)
(* pages, deduplication, stamping of the source catalog) has completed;    *)
(* a step of the price fetch changes at most the price, the price          *)
(* timestamp and the status of the record of its input list it is at, and  *)
(* no other field and no other record.                                     *)
(***************************************************************************)
\* a and b are the same catalog entry: what extraction wrote is equal
SameCatalogData(a, b) ==
    /\ a.part_number = b.part_number
    /\ a.description = b.description
    /\ a.category = b.category
    /\ a.page_reference = b.page_reference
    /\ a.source_catalog = b.source_catalog

\* positions in parts of the records of fetch_prices' input list
InputPositions == {parts_to_price[k] : k \in 1..Len(parts_to_price)}

\* the record at position i has the pricing fields of a new Part
Unpriced(i) ==
    /\ parts[i].status = EXTRACTED
    /\ parts[i].price = None
    /\ parts[i].last_price_update = None

C24_PricingStep ==
    /\ pc \in {"main", "extract"} => parts = <<>> /\ LookedUp = <<>>
    /\ pc \in {"select", "fp_setup", "fp_login", "fp_nav"} =>
          /\ parts' = parts
          /\ parts = ExtractedParts
          /\ \A i \in 1..Len(parts) : Unpriced(i)
    /\ pc \in {"fp_sleep", "fp_except", "fp_finally"} => parts' = parts
    /\ pc = "fp_lookup" =>
          /\ CurrentPart \in InputPositions
          /\ Len(parts') = Len(parts)
          /\ \A i \in 1..Len(parts) :
                IF i = CurrentPart
                THEN SameCatalogData(parts'[i], parts[i])
                ELSE parts'[i] = parts[i]
    /\ InFetch =>
          /\ Len(parts') = Len(ExtractedParts)
          /\ \A i \in 1..Len(parts') : SameCatalogData(parts'[i], ExtractedParts[i])

C24_FetchWritesPricingFieldsOnly == [][C24_PricingStep]_vars

\* the fetch is at its second record: the first has been priced, the second is
\* still as extraction left it
C24_Witness ==
    /\ pc = "fp_lookup"
    /\ pos = 2
    /\ parts[1].status = PRICED
    /\ parts[1].source_catalog = CatalogName
    /\ Untouched(2)

(***************************************************************************)
(* C25: a record is marked price_failed, and its error entry written, only *)
(* after MAX_RETRY_ATTEMPTS lookups of its identifier have failed, and the *)
(* retry count of the entry is the number of lookups made after the first. *)
(***************************************************************************)
MAX_RETRY_ATTEMPTS == 3

\* the lookups of identifier pn made so far
Attempts(pn) == Cardinality({k \in 1..Len(events) :
                                events[k].op = "lookup" /\ events[k].arg = pn})

C25_FailedAfterRetries ==
    \A k \in 1..Len(errors) :
        errors[k].part_number # "ALL" =>
            /\ Attempts(errors[k].part_number) = MAX_RETRY_ATTEMPTS
            /\ errors[k].retry_count = Attempts(errors[k].part_number) - 1

(***************************************************************************)
(* C26: the kind of a per-record error entry tells the cause: not-found    *)
(* for a lookup whose results hold no usable price, unexpected for a       *)
(* lookup that raised a generic exception, and a kind other than not-found *)
(* for a lookup that timed out.                                            *)
(***************************************************************************)
\* the error entry of the lookup just made, at the delay that follows it
LastError == errors[Len(errors)]

C26_ErrorKindTellsCause ==
    (pc = "fp_sleep" /\ last_outcome # "price") =>
        /\ LastError.part_number = parts[CurrentPart].part_number
        /\ last_outcome = "no_price" => LastError.error_type = PART_NOT_FOUND
        /\ last_outcome \in {"error", "raised"} => LastError.error_type = UNEXPECTED
        /\ last_outcome = "timeout" => LastError.error_type # PART_NOT_FOUND

(***************************************************************************)
(* C27: the end timestamp of the session is set before the session         *)
(* metadata is written, so the metadata written by a run that has          *)
(* completed carries an end timestamp and a duration.                      *)
(***************************************************************************)
C27_PersistedSessionHasEnd ==
    \A k \in 1..Len(session_file) :
        /\ session_file[k].end_time # None
        /\ session_file[k].duration_seconds # None

(***************************************************************************)
(* C28: the records handed to the price fetch are all records when         *)
(* force-refresh is set, and otherwise exactly the records whose price     *)
(* timestamp is absent or older than PRICE_STALE_DAYS days.                *)
(***************************************************************************)
\* the price of p was older than the threshold, or absent, when the session
\* started
OlderThanThreshold(p) ==
    \/ p.last_price_update = None
    \/ StartTime - p.last_price_update > PRICE_STALE_DAYS * TicksPerDay

LoopRanToItsEnd == CountOp("sleep") = Len(parts_to_price)

\* positions in parts of the records fetch_prices returned
UpdatedPositions == {updated_parts[k] : k \in 1..Len(updated_parts)}

\* the error entries that carry the identifier of the record at position i
ErrorsOf(i) == {k \in 1..Len(errors) : errors[k].part_number = parts[i].part_number}

C29_InputPartitioned ==
    (FetchReturned /\ nav_result = "ok" /\ LoopRanToItsEnd) =>
        /\ \A i \in InputPositions :
              \/ /\ i \in UpdatedPositions
                 /\ parts[i].status = PRICED
                 /\ ErrorsOf(i) = {}
              \/ /\ i \notin UpdatedPositions
                 /\ parts[i].status = PRICE_FAILED
                 /\ Cardinality(ErrorsOf(i)) = 1
                 /\ \A k \in ErrorsOf(i) : errors[k].page_reference = parts[i].page_reference
        /\ UpdatedPositions \subseteq InputPositions
        /\ Cardinality(UpdatedPositions) = Len(updated_parts)
        /\ Len(updated_parts) + Len(errors) = Len(parts_to_price)
        /\ AllEntries = {}

\* two records were submitted: one was priced, the lookup of the other failed
C29_Witness ==
    /\ FetchReturned
    /\ nav_result = "ok"
    /\ LoopRanToItsEnd
    /\ Len(parts_to_price) = 2
    /\ Len(updated_parts) = 1
    /\ Len(errors) = 1
    /\ errors[1].page_reference = 2

(***************************************************************************)
(* C30: at every point of a price-fetch session a record the session set   *)
(* to priced has a price and a price timestamp, and a lookup that fails    *)
(* changes the status of its own record only: the price and the price      *)
(* timestamp of that record stay as they were and every other record stays *)
(* as it was.                                                              *)
(***************************************************************************)
\* the session has set the record at position i to priced
PricedBySession(i) == i \in UpdatedPositions

C30_LookupStep ==
    pc = "fp_lookup" =>
        /\ \A i \in 1..Len(parts) :
              i # CurrentPart => parts'[i] = parts[i]
        /\ last_outcome' # "price" =>
              /\ parts'[CurrentPart] = [parts[CurrentPart] EXCEPT !.status = PRICE_FAILED]
              /\ parts'[CurrentPart].price = parts[CurrentPart].price
              /\ parts'[CurrentPart].last_price_update = parts[CurrentPart].last_price_update
        /\ last_outcome' = "price" =>
              /\ parts'[CurrentPart].status = PRICED
              /\ parts'[CurrentPart].price # None
              /\ parts'[CurrentPart].last_price_update # None

C30_PricedHavePrice ==
    \A i \in 1..Len(parts) :
        PricedBySession(i) =>
            /\ parts[i].status = PRICED
            /\ parts[i].price # None
            /\ parts[i].last_price_update # None
            /\ parts[i].last_price_update >= StartTime

C30_PricedCompleteFailedKeepsPrice ==
    [][C30_LookupStep /\ C30_PricedHavePrice /\ C30_PricedHavePrice']_vars

\* the lookup of a record that carries the price of an earlier session has
\* just failed, while another record stays outside the input with its price
C30_Witness ==
    /\ pc = "fp_sleep"
    /\ last_outcome = "timeout"
    /\ parts[CurrentPart].status = PRICE_FAILED
    /\ parts[CurrentPart].price = 12345
    /\ input[CurrentPart].status = PRICED
    /\ \E i \in 1..Len(parts) : i \notin InputPositions /\ parts[i].price = 12345

====
